---- MODULE Spec2Model ----
(***************************************************************************)
(* Pancake (pk): stacked branches on top of git.                           *)
(* Model of the branch graph (.pancake/stacks.json), the persisted bulk    *)
(* operation checkpoint (.pancake/operation_state.json), the git state the *)
(* tool reads and drives (local branches, HEAD, rebase in progress) and    *)
(* the command handlers of src/src/main.rs.  One process runs one command  *)
(* per invocation; pc is the position of the running invocation.           *)
(***************************************************************************)
EXTENDS Integers, Sequences, FiniteSets, TLC

(* ---------------------------------------------------------------------- *)
(* Bounds and names                                                        *)
(* ---------------------------------------------------------------------- *)

\* number of graph-changing / HEAD-changing commands in one behaviour
MaxEdits == 2

\* number of bulk operations started in one behaviour
MaxStarts == 2

\* largest count given to `pk up` / `pk down`
MaxCount == 3

MainBranch == "main"

\* the branch names used: the repository's main line and the feature branches
\* of the end-to-end tests
Names == {MainBranch, "first", "second", "third"}

\* String order (str::cmp, byte-wise) of the names above, tabulated.
LexOrder == <<"first", "main", "second", "third">>

Rank(n) == CHOOSE i \in 1..Len(LexOrder) : LexOrder[i] = n

\* Option::None for a branch name
NoBranch == "(none)"

\* HEAD does not point at a branch (head.is_branch() is false)
Detached == "(detached)"

\* no operation_state.json on disk
NoOp == [kind |-> "(none)", branches |-> <<>>, current_index |-> 0,
         original_branch |-> NoBranch]

Kinds == {"sync", "restack"}

VARIABLES
    branches,     \* stacks.json: tracked branch name -> recorded parent (or NoBranch)
    gitBranches,  \* local git branches that exist
    head,         \* the branch HEAD points at, or Detached
    rebaseOf,     \* branch whose git rebase is stopped in progress, or NoBranch
    checkpoint,   \* operation_state.json, or NoOp
    pc,           \* "idle" between invocations, "process" inside process_pending_operation
    cmd,          \* the running / last command
    result,       \* its outcome: [status, names]
    calls,        \* git requests issued by the running / last invocation
    report,       \* branch list printed by finalize_operation in this invocation
    opRebases,    \* rebase requests issued since the latest operation was started
    edits,        \* graph / HEAD changing commands run so far
    starts        \* bulk operations started so far

vars == <<branches, gitBranches, head, rebaseOf, checkpoint, pc, cmd, result,
          calls, report, opRebases, edits, starts>>

gitVars == <<gitBranches, head, rebaseOf>>

(* ---------------------------------------------------------------------- *)
(* StackMetadata                                                           *)
(* ---------------------------------------------------------------------- *)

\* HashMap::new()
EmptyGraph == [n \in {} |-> NoBranch]

contains_key(metadata, name) == name \in DOMAIN metadata

get_children(metadata, branch_name) ==
    {name \in DOMAIN metadata : metadata[name] = branch_name}

get_parent(metadata, branch_name) ==
    IF branch_name \in DOMAIN metadata THEN metadata[branch_name] ELSE NoBranch

\* mutant: the new entry records no parent
add_branch_without_parent(metadata, branch_name, parent) ==
    [n \in DOMAIN metadata \cup {branch_name} |->
        IF n = branch_name THEN NoBranch ELSE metadata[n]]

add_branch(metadata, branch_name, parent) ==
    [n \in DOMAIN metadata \cup {branch_name} |->
        IF n = branch_name THEN parent ELSE metadata[n]]

remove_branch(metadata, branch_name) ==
    [n \in DOMAIN metadata \ {branch_name} |-> metadata[n]]

update_parent(metadata, branch_name, new_parent) ==
    [n \in DOMAIN metadata |->
        IF n = branch_name THEN new_parent ELSE metadata[n]]

\* mutant: at a fork the walk goes on into a child
RECURSIVE find_stack_top_into_fork(_, _)
find_stack_top_into_fork(metadata, current) ==
    LET children == get_children(metadata, current) IN
    IF children = {} THEN current
    ELSE find_stack_top_into_fork(metadata, CHOOSE c \in children : TRUE)

RECURSIVE find_stack_top(_, _)
find_stack_top(metadata, current) ==
    LET children == get_children(metadata, current) IN
    IF children = {} THEN current
    ELSE IF Cardinality(children) > 1 THEN current
    ELSE find_stack_top(metadata, CHOOSE c \in children : TRUE)

\* mutant: the walk to the bottom stops after one parent
find_stack_bottom_one_step(metadata, current) ==
    LET parent == get_parent(metadata, current) IN
    IF parent # NoBranch /\ contains_key(metadata, parent) THEN parent
    ELSE current

\* mutant: the walk to the bottom is not made
find_stack_bottom_stays(metadata, current) == current

RECURSIVE find_stack_bottom(_, _)
find_stack_bottom(metadata, current) ==
    LET parent == get_parent(metadata, current) IN
    IF parent # NoBranch /\ contains_key(metadata, parent)
    THEN find_stack_bottom(metadata, parent)
    ELSE current

(* ---------------------------------------------------------------------- *)
(* Planner                                                                 *)
(* ---------------------------------------------------------------------- *)

\* mutant: children are taken in descending order
RECURSIVE sort_descending(_)
sort_descending(S) ==
    IF S = {} THEN <<>>
    ELSE LET m == CHOOSE x \in S : \A y \in S : Rank(x) >= Rank(y)
         IN <<m>> \o sort_descending(S \ {m})

\* Vec::sort on names
RECURSIVE sort(_)
sort(S) ==
    IF S = {} THEN <<>>
    ELSE LET m == CHOOSE x \in S : \A y \in S : Rank(x) <= Rank(y)
         IN <<m>> \o sort(S \ {m})

RECURSIVE dfs(_, _), dfsEach(_, _)
dfs(metadata, branch) ==
    <<branch>> \o dfsEach(metadata, sort(get_children(metadata, branch)))

dfsEach(metadata, children) ==
    IF children = <<>> THEN <<>>
    ELSE dfs(metadata, Head(children)) \o dfsEach(metadata, Tail(children))

collect_branch_sequence(metadata, start_branch) ==
    IF contains_key(metadata, start_branch) THEN dfs(metadata, start_branch)
    ELSE <<>>

(* ---------------------------------------------------------------------- *)
(* Forest                                                                  *)
(* ---------------------------------------------------------------------- *)

\* the recorded parents that are branch names
parents_of(metadata) == {metadata[n] : n \in DOMAIN metadata} \ {NoBranch}

\* the three maps build_stack_forest fills in its first loop, each list
\* sorted by name afterwards
children_map(metadata) ==
    [p \in parents_of(metadata) \cap DOMAIN metadata |->
        sort(get_children(metadata, p))]

external_roots(metadata) ==
    [p \in parents_of(metadata) \ DOMAIN metadata |->
        sort(get_children(metadata, p))]

standalone_roots(metadata) == sort(get_children(metadata, NoBranch))

\* mutant: the node is built without the branches on top of it
build_branch_node_leaf(name, cmap) == [name |-> name, children |-> <<>>]

RECURSIVE build_branch_node(_, _)
build_branch_node(name, cmap) ==
    LET child_names == IF name \in DOMAIN cmap THEN cmap[name] ELSE <<>> IN
    [name |-> name,
     children |-> [i \in 1..Len(child_names) |->
                      build_branch_node(child_names[i], cmap)]]

\* the roots, in order: one ExternalParent per untracked parent name, by
\* name, then one Standalone per branch without a recorded parent
build_stack_forest(metadata) ==
    LET cmap == children_map(metadata)
        ext == external_roots(metadata)
        external_names == sort(DOMAIN ext)
        standalone == standalone_roots(metadata)
    IN [i \in 1..Len(external_names) |->
           [kind |-> "ExternalParent",
            name |-> external_names[i],
            children |-> [j \in 1..Len(ext[external_names[i]]) |->
                             build_branch_node(ext[external_names[i]][j], cmap)]]]
       \o
       [i \in 1..Len(standalone) |->
           [kind |-> "Standalone",
            node |-> build_branch_node(standalone[i], cmap)]]

(* ---------------------------------------------------------------------- *)
(* PendingOperation                                                        *)
(* ---------------------------------------------------------------------- *)

\* mutant: the start of the plan is recorded instead of the current branch
PendingOperation_new_from_start(kind, seq, original_branch) ==
    [kind |-> kind, branches |-> seq, current_index |-> 0,
     original_branch |-> seq[1]]

PendingOperation_new(kind, seq, original_branch) ==
    [kind |-> kind, branches |-> seq, current_index |-> 0,
     original_branch |-> original_branch]

command_name(kind) == IF kind = "sync" THEN "pk sync" ELSE "pk restack"

\* mutant: the processed branch is dropped from the list instead
advance_dropping(state) == [state EXCEPT !.branches = Tail(@)]

\* mutant: the cursor is moved twice
advance_twice(state) == [state EXCEPT !.current_index = @ + 2]

\* state.current_index += 1
advance(state) == [state EXCEPT !.current_index = @ + 1]

\* the loop condition of process_pending_operation
has_next(state) == state.current_index < Len(state.branches)

\* mutant: continue_operation always goes on to rebase --continue
nothing_left_never(state) == FALSE

\* continue_operation finds nothing left to process
nothing_left(state) == state.current_index >= Len(state.branches)

\* mutant: the failed step is counted as done
after_failed_rebase_advanced(state) == [state EXCEPT !.current_index = @ + 1]

\* what operation_state.json holds after a rebase exits non-zero: the error
\* is returned before the index is touched and nothing is saved
after_failed_rebase(state) == state

\* mutant: finalize stays on the branch processed last
finalize_target_last(state) == state.branches[Len(state.branches)]

\* the branch finalize_operation checks out, and the list it prints
finalize_target(state) == state.original_branch

\* mutant: the first branch is left out of the list
finalize_report_tail(state) == Tail(state.branches)

finalize_report(state) == state.branches

(* ---------------------------------------------------------------------- *)
(* Outcomes and git requests                                               *)
(* ---------------------------------------------------------------------- *)

\* status: the error (or success) reported; names: the command the message
\* tells the user to use ("" when it names none)
Res(status, names) == [status |-> status, names |-> names]

Checkout(b) == [op |-> "checkout", branch |-> b, onto |-> NoBranch]
Rebase(b, p) == [op |-> "rebase", branch |-> b, onto |-> p]
RebaseContinue == [op |-> "rebase --continue", branch |-> NoBranch, onto |-> NoBranch]
RebaseAbort == [op |-> "rebase --abort", branch |-> NoBranch, onto |-> NoBranch]

\* `git checkout b`: fails when b does not exist, may fail otherwise
\* (local changes that would be overwritten)
CheckoutOutcomes(b) == IF b \in gitBranches THEN {TRUE, FALSE} ELSE {FALSE}

\* `git rebase p` with b checked out: "ok" (exit 0), "conflict" (non-zero,
\* rebase stopped in progress), "refused" (non-zero, nothing started)
RebaseOutcomes == {"ok", "conflict", "refused"}

\* `git rebase --continue`: fails when no rebase is in progress, may fail
\* otherwise (conflicts not resolved, or the next commit conflicts)
ContinueOutcomes == IF rebaseOf = NoBranch THEN {FALSE} ELSE {TRUE, FALSE}

\* `git rebase --abort`: fails when no rebase is in progress
AbortOutcomes == IF rebaseOf = NoBranch THEN {FALSE} ELSE {TRUE}

\* a stopped rebase ends (continued to its end, or aborted): git leaves the
\* rebased branch checked out, writing its ref
RebaseEnds ==
    /\ head' = rebaseOf
    /\ gitBranches' = gitBranches \cup {rebaseOf}
    /\ rebaseOf' = NoBranch

(* ---------------------------------------------------------------------- *)
(* Bulk operation state machine                                            *)
(* ---------------------------------------------------------------------- *)

\* opRebases is kept while its operation is checkpointed, and through the
\* invocation that ends the operation
Kept == IF checkpoint = NoOp THEN <<>> ELSE opRebases

\* the invocation ends with an error before anything was written or requested
Fail(r) ==
    /\ result' = r
    /\ calls' = <<>>
    /\ report' = <<>>
    /\ pc' = "idle"
    /\ opRebases' = Kept
    /\ UNCHANGED <<branches, gitVars, checkpoint, edits, starts>>

\* mutant: the checkpoint is cleared only after the checkout succeeded
finalize_operation_checkout_first ==
    /\ pc' = "idle"
    /\ \E ok \in CheckoutOutcomes(finalize_target(checkpoint)) :
        /\ calls' = Append(IF pc = "idle" THEN <<>> ELSE calls,
                           Checkout(finalize_target(checkpoint)))
        /\ IF ok
           THEN /\ head' = finalize_target(checkpoint)
                /\ checkpoint' = NoOp
                /\ result' = Res("ok", "")
                /\ report' = finalize_report(checkpoint)
           ELSE /\ head' = head
                /\ checkpoint' = checkpoint
                /\ result' = Res("ExternalToolFailure", "")
                /\ report' = <<>>
    /\ UNCHANGED <<branches, gitBranches, rebaseOf, opRebases, edits, starts>>

finalize_operation ==
    /\ checkpoint' = NoOp
    /\ pc' = "idle"
    /\ \E ok \in CheckoutOutcomes(finalize_target(checkpoint)) :
        /\ calls' = Append(IF pc = "idle" THEN <<>> ELSE calls,
                           Checkout(finalize_target(checkpoint)))
        /\ IF ok
           THEN /\ head' = finalize_target(checkpoint)
                /\ result' = Res("ok", "")
                /\ report' = finalize_report(checkpoint)
           ELSE /\ head' = head
                /\ result' = Res("ExternalToolFailure", "")
                /\ report' = <<>>
    /\ UNCHANGED <<branches, gitBranches, rebaseOf, opRebases, edits, starts>>

execute_operation(state) ==
    IF state.branches = <<>>
    THEN /\ result' = Res("ok", "")
         /\ calls' = <<>>
         /\ report' = <<>>
         /\ pc' = "idle"
         /\ opRebases' = Kept
         /\ UNCHANGED <<branches, gitVars, checkpoint, edits, starts>>
    ELSE /\ starts < MaxStarts
         /\ starts' = starts + 1
         /\ checkpoint' = state
         /\ pc' = "process"
         /\ result' = Res("running", "")
         /\ calls' = <<>>
         /\ report' = <<>>
         /\ opRebases' = <<>>
         /\ UNCHANGED <<branches, gitVars, edits>>

\* mutant: the branch that cannot be processed is skipped in the checkpoint
after_fatal_skipped(state) == [state EXCEPT !.current_index = @ + 1]

\* the checkpoint on disk after the loop bailed out before the rebase: the
\* error is returned before state.save
after_fatal(state) == state

\* one iteration of the loop, or the loop's exit followed by finalize
process_pending_operation ==
    /\ pc = "process"
    /\ UNCHANGED cmd
    /\ IF has_next(checkpoint)
       THEN LET branch == checkpoint.branches[checkpoint.current_index + 1]
                parent == get_parent(branches, branch)
                stop(r) == /\ result' = r
                           /\ pc' = "idle"
                           /\ checkpoint' = after_fatal(checkpoint)
                           /\ UNCHANGED <<branches, gitVars, calls, report,
                                          opRebases, edits, starts>>
            IN
            IF branch \notin gitBranches THEN stop(Res("BranchNotFound", ""))
            ELSE IF parent = NoBranch THEN stop(Res("NoRecordedParent", ""))
            ELSE \E co \in CheckoutOutcomes(branch) :
                IF ~co
                THEN /\ calls' = Append(calls, Checkout(branch))
                     /\ result' = Res("ExternalToolFailure", "")
                     /\ pc' = "idle"
                     /\ checkpoint' = after_fatal(checkpoint)
                     /\ UNCHANGED <<branches, gitVars, report, opRebases,
                                    edits, starts>>
                ELSE \E out \in RebaseOutcomes :
                     /\ calls' = calls \o <<Checkout(branch), Rebase(branch, parent)>>
                     /\ opRebases' = Append(opRebases, Rebase(branch, parent))
                     /\ UNCHANGED <<branches, gitBranches, report, edits, starts>>
                     /\ IF out = "ok"
                        THEN /\ checkpoint' = advance(checkpoint)
                             /\ head' = branch
                             /\ UNCHANGED <<rebaseOf, result, pc>>
                        ELSE /\ result' = Res("RebaseConflict",
                                                command_name(checkpoint.kind))
                             /\ pc' = "idle"
                             /\ head' = IF out = "conflict" THEN Detached ELSE branch
                             /\ rebaseOf' = IF out = "conflict" THEN branch ELSE rebaseOf
                             /\ checkpoint' = after_failed_rebase(checkpoint)
       ELSE finalize_operation

\* mutant: the kind of the checkpoint is not compared
load_for_any_kind(kind) ==
    IF checkpoint = NoOp THEN Res("NoOperationInProgress", kind)
    ELSE Res("ok", "")

\* the checks continue_operation and abort_operation start with
load_for(kind) ==
    IF checkpoint = NoOp THEN Res("NoOperationInProgress", kind)
    ELSE IF checkpoint.kind # kind
    THEN Res("OperationKindMismatch", command_name(checkpoint.kind))
    ELSE Res("ok", "")

\* mutant: after a successful rebase --continue the loop is not entered
continue_operation_not_resuming(kind) ==
    IF load_for(kind).status # "ok" THEN Fail(load_for(kind))
    ELSE IF nothing_left(checkpoint)
    THEN finalize_operation
    ELSE \E ok \in ContinueOutcomes :
        /\ calls' = <<RebaseContinue>>
        /\ report' = <<>>
        /\ pc' = "idle"
        /\ UNCHANGED <<branches, opRebases, edits, starts>>
        /\ IF ok
           THEN /\ RebaseEnds
                /\ checkpoint' = advance(checkpoint)
                /\ result' = Res("ok", "")
           ELSE /\ result' = Res("ExternalToolFailure", "")
                /\ UNCHANGED <<gitVars, checkpoint>>

\* mutant: a failed rebase --continue moves on to the next branch
continue_operation_skipping(kind) ==
    IF load_for(kind).status # "ok" THEN Fail(load_for(kind))
    ELSE IF nothing_left(checkpoint)
    THEN finalize_operation
    ELSE \E ok \in ContinueOutcomes :
        /\ calls' = <<RebaseContinue>>
        /\ report' = <<>>
        /\ UNCHANGED <<branches, opRebases, edits, starts>>
        /\ IF ok
           THEN /\ RebaseEnds
                /\ checkpoint' = advance(checkpoint)
                /\ pc' = "process"
                /\ result' = Res("running", "")
           ELSE /\ result' = Res("ExternalToolFailure", "")
                /\ pc' = "idle"
                /\ checkpoint' = advance(checkpoint)
                /\ UNCHANGED gitVars

continue_operation(kind) ==
    IF load_for(kind).status # "ok" THEN Fail(load_for(kind))
    ELSE IF nothing_left(checkpoint)
    THEN finalize_operation
    ELSE \E ok \in ContinueOutcomes :
        /\ calls' = <<RebaseContinue>>
        /\ report' = <<>>
        /\ UNCHANGED <<branches, opRebases, edits, starts>>
        /\ IF ok
           THEN /\ RebaseEnds
                /\ checkpoint' = advance(checkpoint)
                /\ pc' = "process"
                /\ result' = Res("running", "")
           ELSE /\ result' = Res("ExternalToolFailure", "")
                /\ pc' = "idle"
                /\ UNCHANGED <<gitVars, checkpoint>>

\* mutant: a successful abort goes back to the branch the operation was
\* started from
abort_operation_returning(kind) ==
    IF load_for(kind).status # "ok" THEN Fail(load_for(kind))
    ELSE \E ok \in AbortOutcomes :
        /\ calls' = <<RebaseAbort>>
        /\ report' = <<>>
        /\ pc' = "idle"
        /\ UNCHANGED <<branches, opRebases, edits, starts>>
        /\ IF ok
           THEN /\ head' = checkpoint.original_branch
                /\ gitBranches' = gitBranches \cup {rebaseOf}
                /\ rebaseOf' = NoBranch
                /\ checkpoint' = NoOp
                /\ result' = Res("ok", "")
           ELSE /\ result' = Res("ExternalToolFailure", "")
                /\ UNCHANGED <<gitVars, checkpoint>>

abort_operation(kind) ==
    IF load_for(kind).status # "ok" THEN Fail(load_for(kind))
    ELSE \E ok \in AbortOutcomes :
        /\ calls' = <<RebaseAbort>>
        /\ report' = <<>>
        /\ pc' = "idle"
        /\ UNCHANGED <<branches, opRebases, edits, starts>>
        /\ IF ok
           THEN /\ RebaseEnds
                /\ checkpoint' = NoOp
                /\ result' = Res("ok", "")
           ELSE /\ result' = Res("ExternalToolFailure", "")
                /\ UNCHANGED <<gitVars, checkpoint>>

\* mutant: the check for an existing checkpoint is skipped
ensure_no_active_operation_skipped == TRUE

ensure_no_active_operation == checkpoint = NoOp

SyncFlags(c, a, all, fm) ==
    [continue_rebase |-> c, abort |-> a, all |-> all, from_main |-> fm]

\* the invocations of `pk sync` considered: each flag alone, and the
\* combinations the handler rejects
SyncArgs == {SyncFlags(FALSE, FALSE, FALSE, FALSE),
             SyncFlags(FALSE, FALSE, TRUE, FALSE),
             SyncFlags(FALSE, FALSE, FALSE, TRUE),
             SyncFlags(TRUE, FALSE, FALSE, FALSE),
             SyncFlags(FALSE, TRUE, FALSE, FALSE),
             SyncFlags(TRUE, TRUE, FALSE, FALSE),
             SyncFlags(TRUE, FALSE, TRUE, FALSE)}

RestackArgs == [continue_rebase : BOOLEAN, abort : BOOLEAN]

\* what the command line asked for, as recorded in cmd
Mode(args, scope) ==
    IF args.continue_rebase /\ args.abort THEN "invalid"
    ELSE IF (args.continue_rebase \/ args.abort) /\ scope THEN "invalid"
    ELSE IF args.continue_rebase THEN "continue"
    ELSE IF args.abort THEN "abort"
    ELSE "start"

\* history: the original_branch of the checkpoint an --abort found
aborted_from(mode) ==
    IF mode = "abort" /\ checkpoint # NoOp THEN checkpoint.original_branch
    ELSE NoBranch

handle_sync(args) ==
    /\ pc = "idle"
    /\ cmd' = [name |-> "sync", mode |-> Mode(args, args.all \/ args.from_main),
               all |-> args.all \/ args.from_main,
               original |-> aborted_from(Mode(args, args.all \/ args.from_main))]
    /\ IF args.continue_rebase /\ args.abort THEN Fail(Res("BadArguments", ""))
       ELSE IF (args.continue_rebase \/ args.abort) /\ (args.all \/ args.from_main)
       THEN Fail(Res("BadArguments", ""))
       ELSE IF args.continue_rebase THEN continue_operation("sync")
       ELSE IF args.abort THEN abort_operation("sync")
       ELSE IF ~ensure_no_active_operation
       THEN Fail(Res("OperationAlreadyInProgress", command_name(checkpoint.kind)))
       ELSE IF head = Detached THEN Fail(Res("HeadNotOnBranch", ""))
       ELSE IF ~contains_key(branches, head)
       THEN Fail(Res("UntrackedCurrentBranch", ""))
       ELSE LET start_branch == IF args.all \/ args.from_main
                                THEN find_stack_bottom(branches, head)
                                ELSE head
                seq == collect_branch_sequence(branches, start_branch)
            IN IF seq = <<>> THEN Fail(Res("NothingToProcess", ""))
               ELSE execute_operation(PendingOperation_new("sync", seq, head))

\* history: the list printed by the command just before this one, when that
\* was a `pk restack` that started and completed in one invocation
previous_report ==
    IF cmd.name = "restack" /\ cmd.mode = "start" /\ result.status = "ok"
    THEN report ELSE <<>>

handle_restack(args) ==
    /\ pc = "idle"
    /\ cmd' = [name |-> "restack", mode |-> Mode(args, FALSE), all |-> FALSE,
               previous |-> IF Mode(args, FALSE) = "start" THEN previous_report
                            ELSE <<>>,
               original |-> aborted_from(Mode(args, FALSE))]
    /\ IF args.continue_rebase /\ args.abort THEN Fail(Res("BadArguments", ""))
       ELSE IF args.continue_rebase THEN continue_operation("restack")
       ELSE IF args.abort THEN abort_operation("restack")
       ELSE IF ~ensure_no_active_operation
       THEN Fail(Res("OperationAlreadyInProgress", command_name(checkpoint.kind)))
       ELSE IF head = Detached THEN Fail(Res("HeadNotOnBranch", ""))
       ELSE IF ~contains_key(branches, head)
       THEN Fail(Res("UntrackedCurrentBranch", ""))
       ELSE LET bottom_branch == find_stack_bottom(branches, head)
                seq == collect_branch_sequence(branches, bottom_branch)
            IN IF seq = <<>> THEN Fail(Res("NothingToProcess", ""))
               ELSE execute_operation(PendingOperation_new("restack", seq, head))

(* ---------------------------------------------------------------------- *)
(* Branch commands                                                         *)
(* ---------------------------------------------------------------------- *)

\* pk branch create <branch_name> [--base <base>]; base = NoBranch: not given
handle_branch_create(branch_name, base) ==
    /\ pc = "idle"
    /\ cmd' = [name |-> "branch create", mode |-> "", all |-> FALSE]
    /\ IF base # NoBranch /\ base \notin gitBranches
       THEN Fail(Res("BranchNotFound", ""))
       ELSE IF base = NoBranch /\ head = Detached
       THEN Fail(Res("HeadNotOnBranch", ""))
       ELSE IF branch_name \in gitBranches
       THEN Fail(Res("BranchAlreadyExists", ""))
       ELSE LET base_branch == IF base # NoBranch THEN base ELSE head IN
            /\ edits < MaxEdits
            /\ edits' = edits + 1
            /\ gitBranches' = gitBranches \cup {branch_name}
            /\ head' = branch_name
            /\ branches' = add_branch(branches, branch_name, base_branch)
            /\ result' = Res("ok", "")
            /\ calls' = <<>>
            /\ report' = <<>>
            /\ opRebases' = Kept
            /\ UNCHANGED <<rebaseOf, checkpoint, pc, starts>>

\* mutant: without a recorded parent the children go onto main, as the
\* printed line says
restack_children_onto_main(metadata, children, parent) ==
    [n \in DOMAIN metadata |->
        IF n \in children
        THEN (IF parent = NoBranch THEN MainBranch ELSE parent)
        ELSE metadata[n]]

\* mutant: only the first child is re-parented
restack_children_first_only(metadata, children, parent) ==
    [n \in DOMAIN metadata |->
        IF children # {} /\ n = sort(children)[1] THEN parent ELSE metadata[n]]

\* mutant: no child is re-parented
restack_children_skipped(metadata, children, parent) == metadata

\* the loop of handle_branch_delete over the children of the deleted branch:
\* update_parent(child, parent) for each of them
restack_children(metadata, children, parent) ==
    [n \in DOMAIN metadata |-> IF n \in children THEN parent ELSE metadata[n]]

\* mutant: the graph rewritten in memory is what the failed delete leaves
saved_after_failed_delete_restacked(metadata, restacked) == restacked

\* what stacks.json holds after branch.delete() failed: the error is returned
\* before metadata.save, the graph rewritten in memory is dropped
saved_after_failed_delete(metadata, restacked) == metadata

\* mutant: the current branch is not protected
is_current_branch_never(branch_name) == FALSE

\* current_branch.as_deref() == Some(&args.branch_name)
is_current_branch(branch_name) == head = branch_name

\* pk branch delete <branch_name> [--force]; report: the children named by
\* the "Restacked" lines (printed in map order, kept here in name order)
handle_branch_delete(branch_name, force) ==
    /\ pc = "idle"
    /\ cmd' = [name |-> "branch delete", mode |-> "", all |-> FALSE]
    /\ IF branch_name \notin gitBranches THEN Fail(Res("BranchNotFound", ""))
       ELSE IF is_current_branch(branch_name)
       THEN Fail(Res("DeleteCurrentBranch", ""))
       ELSE LET parent == get_parent(branches, branch_name)
                children == get_children(branches, branch_name)
                restacked == restack_children(branches, children, parent)
            IN \E deleted \in BOOLEAN :
               /\ calls' = <<>>
               /\ report' = sort(children)
               /\ opRebases' = Kept
               /\ UNCHANGED <<head, rebaseOf, checkpoint, pc, starts>>
               /\ IF ~deleted
                  THEN /\ result' = Res("ExternalToolFailure", "")
                       /\ branches' = saved_after_failed_delete(branches, restacked)
                       /\ UNCHANGED <<gitBranches, edits>>
                  ELSE /\ edits < MaxEdits
                       /\ edits' = edits + 1
                       /\ gitBranches' = gitBranches \ {branch_name}
                       /\ branches' = remove_branch(restacked, branch_name)
                       /\ result' = Res("ok", "")

\* pk log: the forest of the graph, printed; nothing is built for an empty
\* graph
handle_log ==
    /\ pc = "idle"
    /\ cmd' = [name |-> "log", mode |-> "", all |-> FALSE]
    /\ report' = IF DOMAIN branches = {} THEN <<>> ELSE build_stack_forest(branches)
    /\ result' = Res("ok", "")
    /\ calls' = <<>>
    /\ UNCHANGED <<branches, gitBranches, head, rebaseOf, checkpoint, pc,
                   opRebases, edits, starts>>

\* the user switches branch with plain git between invocations
git_checkout(branch) ==
    /\ pc = "idle"
    /\ rebaseOf = NoBranch
    /\ branch \in gitBranches
    /\ branch # head
    /\ edits < MaxEdits
    /\ edits' = edits + 1
    /\ head' = branch
    /\ cmd' = [name |-> "git checkout", mode |-> "", all |-> FALSE]
    /\ result' = Res("ok", "")
    /\ calls' = <<>>
    /\ report' = <<>>
    /\ opRebases' = Kept
    /\ UNCHANGED <<branches, gitBranches, rebaseOf, checkpoint, pc, starts>>

\* the process is killed between two iterations of the loop, right after
\* the checkpoint was saved
kill ==
    /\ pc = "process"
    /\ pc' = "idle"
    /\ result' = Res("killed", "")
    /\ UNCHANGED <<branches, gitVars, checkpoint, cmd, calls, report, opRebases,
                   edits, starts>>

(* ---------------------------------------------------------------------- *)
(* Navigation                                                              *)
(* ---------------------------------------------------------------------- *)

\* outcome of a navigation command: status, the message variant (names), the
\* hops made when the walk stopped, and the branch the command was run on
NavRes(status, names, moved, from) ==
    [status |-> status, names |-> names, moved |-> moved, from |-> from]

NavCmd(name, count) == [name |-> name, mode |-> "", all |-> FALSE, count |-> count]

\* checkout_branch (libgit2): set_head attaches HEAD to refs/heads/<branch>,
\* unborn when the branch does not exist; checkout_head then fails on an
\* unborn HEAD and otherwise forces the working tree
checkout_branch(branch_name, done) ==
    /\ calls' = <<Checkout(branch_name)>>
    /\ head' = branch_name
    /\ result' = IF branch_name \in gitBranches THEN done
                 ELSE NavRes("ExternalToolFailure", "", done.moved, done.from)

\* the invocation ends with an error before any checkout
NavFail(r) ==
    /\ result' = r
    /\ calls' = <<>>
    /\ UNCHANGED head

\* repo.head() fails, or HEAD is not a branch
no_current_branch == head = Detached \/ head \notin gitBranches

\* mutant: every dead end gets the first-hop message
up_hop_one_message(children, i, count) ==
    IF children = {} THEN "NoChildren"
    ELSE IF Cardinality(children) = 1 THEN "move"
    ELSE IF count > 1 THEN "MultipleChildren"
    ELSE "SelectionNotImplemented"

\* mutant: a fork stops the walk on the first hop only
up_hop_first_fork_only(children, i, count) ==
    IF children = {} THEN (IF i = 0 THEN "NoChildren" ELSE "OnlyMoved")
    ELSE IF Cardinality(children) = 1 \/ i > 0 THEN "move"
    ELSE IF count > 1 THEN "MultipleChildren"
    ELSE "SelectionNotImplemented"

\* the body of the loop of handle_up at hop i: move to the only child, or the
\* error the command ends with
up_hop(children, i, count) ==
    IF children = {} THEN (IF i = 0 THEN "NoChildren" ELSE "OnlyMoved")
    ELSE IF Cardinality(children) = 1 THEN "move"
    ELSE IF count > 1 THEN "MultipleChildren"
    ELSE "SelectionNotImplemented"

\* for i in 0..count of handle_up, from hop i with target reached so far
RECURSIVE up_walk(_, _, _, _)
up_walk(metadata, target, i, count) ==
    IF i >= count THEN [status |-> "ok", moved |-> i, target |-> target]
    ELSE LET children == get_children(metadata, target)
             hop == up_hop(children, i, count)
         IN IF hop = "move"
            THEN up_walk(metadata, CHOOSE c \in children : TRUE, i + 1, count)
            ELSE [status |-> hop, moved |-> i, target |-> target]

\* mutant: only the first hop is made
down_hop_first_hop_only(metadata, target, i) ==
    LET parent == get_parent(metadata, target) IN
    IF i >= 1 THEN "OnlyMoved"
    ELSE IF parent # NoBranch /\ contains_key(metadata, parent) THEN "move"
    ELSE "NoParent"

\* mutant: any recorded parent is moved to
down_hop_any_parent(metadata, target, i) ==
    IF get_parent(metadata, target) # NoBranch THEN "move"
    ELSE IF i = 0 THEN "NoParent" ELSE "OnlyMoved"

\* the body of the loop of handle_down at hop i
down_hop(metadata, target, i) ==
    LET parent == get_parent(metadata, target) IN
    IF parent # NoBranch /\ contains_key(metadata, parent) THEN "move"
    ELSE IF i = 0 THEN "NoParent" ELSE "OnlyMoved"

RECURSIVE down_walk(_, _, _, _)
down_walk(metadata, target, i, count) ==
    IF i >= count THEN [status |-> "ok", moved |-> i, target |-> target]
    ELSE LET hop == down_hop(metadata, target, i)
         IN IF hop = "move"
            THEN down_walk(metadata, get_parent(metadata, target), i + 1, count)
            ELSE [status |-> hop, moved |-> i, target |-> target]

\* pk up [count]
handle_up(count) ==
    /\ pc = "idle"
    /\ cmd' = NavCmd("up", count)
    /\ report' = <<>>
    /\ UNCHANGED <<branches, gitBranches, rebaseOf, checkpoint, pc, opRebases,
                   edits, starts>>
    /\ IF no_current_branch THEN NavFail(NavRes("HeadNotOnBranch", "", 0, head))
       ELSE LET walk == up_walk(branches, head, 0, count) IN
            IF walk.status # "ok"
            THEN NavFail(NavRes(walk.status, "", walk.moved, head))
            ELSE checkout_branch(walk.target, NavRes("ok", "", walk.moved, head))

\* pk down [count]
handle_down(count) ==
    /\ pc = "idle"
    /\ cmd' = NavCmd("down", count)
    /\ report' = <<>>
    /\ UNCHANGED <<branches, gitBranches, rebaseOf, checkpoint, pc, opRebases,
                   edits, starts>>
    /\ IF no_current_branch THEN NavFail(NavRes("HeadNotOnBranch", "", 0, head))
       ELSE LET walk == down_walk(branches, head, 0, count) IN
            IF walk.status # "ok"
            THEN NavFail(NavRes(walk.status, "", walk.moved, head))
            ELSE checkout_branch(walk.target, NavRes("ok", "", walk.moved, head))

\* mutant: the checkout is made even when there is nowhere to go
already_there_ignored(target, current_branch) == FALSE

\* top_branch == current_branch / bottom_branch == current_branch
already_there(target, current_branch) == target = current_branch

\* mutant: the current branch need not be tracked
jump_from_untracked(name, target) ==
    /\ pc = "idle"
    /\ cmd' = NavCmd(name, 0)
    /\ report' = <<>>
    /\ UNCHANGED <<branches, gitBranches, rebaseOf, checkpoint, pc, opRebases,
                   edits, starts>>
    /\ IF no_current_branch THEN NavFail(NavRes("HeadNotOnBranch", "", 0, head))
       ELSE IF already_there(target, head)
       THEN NavFail(NavRes("ok", "already at the " \o name, 0, head))
       ELSE checkout_branch(target, NavRes("ok", "switched", 0, head))

\* the common shape of handle_top and handle_bottom
jump(name, target) ==
    /\ pc = "idle"
    /\ cmd' = NavCmd(name, 0)
    /\ report' = <<>>
    /\ UNCHANGED <<branches, gitBranches, rebaseOf, checkpoint, pc, opRebases,
                   edits, starts>>
    /\ IF no_current_branch THEN NavFail(NavRes("HeadNotOnBranch", "", 0, head))
       ELSE IF ~contains_key(branches, head)
       THEN NavFail(NavRes("UntrackedCurrentBranch", "", 0, head))
       ELSE IF already_there(target, head)
       THEN NavFail(NavRes("ok", "already at the " \o name, 0, head))
       ELSE checkout_branch(target, NavRes("ok", "switched", 0, head))

\* pk top
handle_top == jump("top", find_stack_top(branches, head))

\* pk bottom
handle_bottom == jump("bottom", find_stack_bottom(branches, head))

(* ---------------------------------------------------------------------- *)
(* Specification                                                           *)
(* ---------------------------------------------------------------------- *)

\* a repository with one branch, right after `pk init`
Init ==
    /\ branches = EmptyGraph
    /\ gitBranches = {MainBranch}
    /\ head = MainBranch
    /\ rebaseOf = NoBranch
    /\ checkpoint = NoOp
    /\ pc = "idle"
    /\ cmd = [name |-> "init", mode |-> "", all |-> FALSE]
    /\ result = Res("ok", "")
    /\ calls = <<>>
    /\ report = <<>>
    /\ opRebases = <<>>
    /\ edits = 0
    /\ starts = 0

Next ==
    \/ \E args \in SyncArgs : handle_sync(args)
    \/ \E args \in RestackArgs : handle_restack(args)
    \/ process_pending_operation
    \/ kill
    \/ \E n \in Names, base \in Names \cup {NoBranch} : handle_branch_create(n, base)
    \/ \E n \in Names, force \in BOOLEAN : handle_branch_delete(n, force)
    \/ \E b \in Names : git_checkout(b)

Spec == Init /\ [][Next]_vars

\* The stack of the end-to-end test: main <- first <- second <- third, built
\* by three `pk branch create`, third checked out.  MaxEdits more edits and
\* one bulk operation are explored from there.
InitStack ==
    /\ branches = [n \in {"first", "second", "third"} |->
                     IF n = "first" THEN MainBranch
                     ELSE IF n = "second" THEN "first" ELSE "second"]
    /\ gitBranches = {MainBranch, "first", "second", "third"}
    /\ head = "third"
    /\ rebaseOf = NoBranch
    /\ checkpoint = NoOp
    /\ pc = "idle"
    /\ cmd = [name |-> "branch create", mode |-> "", all |-> FALSE]
    /\ result = Res("ok", "")
    /\ calls = <<>>
    /\ report = <<>>
    /\ opRebases = <<>>
    /\ edits = 0
    /\ starts = MaxStarts - 1

SpecStack == InitStack /\ [][Next]_vars

\* The fork of the end-to-end test of branch delete: main <- first, first <-
\* second, first <- third, main checked out.  MaxEdits more edits and one
\* bulk operation are explored from there.
InitFork ==
    /\ branches = [n \in {"first", "second", "third"} |->
                     IF n = "first" THEN MainBranch ELSE "first"]
    /\ gitBranches = {MainBranch, "first", "second", "third"}
    /\ head = MainBranch
    /\ rebaseOf = NoBranch
    /\ checkpoint = NoOp
    /\ pc = "idle"
    /\ cmd = [name |-> "git checkout", mode |-> "", all |-> FALSE]
    /\ result = Res("ok", "")
    /\ calls = <<>>
    /\ report = <<>>
    /\ opRebases = <<>>
    /\ edits = 0
    /\ starts = MaxStarts - 1

SpecFork == InitFork /\ [][Next]_vars

(* ---------------------------------------------------------------------- *)
(* The planner alone, on every graph                                       *)
(* ---------------------------------------------------------------------- *)

\* the recorded ancestors of b, following at most k parent links
RECURSIVE Anc(_, _, _)
Anc(metadata, b, k) ==
    IF k = 0 \/ get_parent(metadata, b) = NoBranch THEN {}
    ELSE {get_parent(metadata, b)} \cup Anc(metadata, get_parent(metadata, b), k - 1)

Ancestors(metadata, b) == Anc(metadata, b, Cardinality(DOMAIN metadata) + 1)

Acyclic(metadata) == \A b \in DOMAIN metadata : b \notin Ancestors(metadata, b)

\* every acyclic graph over Names: a parent is tracked, external or absent
Graphs ==
    UNION {{g \in [T -> Names \cup {NoBranch}] : Acyclic(g)} : T \in SUBSET Names}

InitPlan ==
    /\ branches \in Graphs
    /\ gitBranches = Names
    /\ head = MainBranch
    /\ rebaseOf = NoBranch
    /\ checkpoint = NoOp
    /\ pc = "idle"
    /\ cmd = [name |-> "init", mode |-> "", all |-> FALSE]
    /\ result = Res("ok", "")
    /\ calls = <<>>
    /\ report = <<>>
    /\ opRebases = <<>>
    /\ edits = 0
    /\ starts = 0

\* collect_branch_sequence applied to a start branch; the plan goes to report
plan(start_branch) ==
    /\ cmd' = [name |-> "plan", mode |-> start_branch, all |-> FALSE]
    /\ report' = collect_branch_sequence(branches, start_branch)
    /\ UNCHANGED <<branches, gitVars, checkpoint, pc, result, calls, opRebases,
                   edits, starts>>

NextPlan ==
    \/ \E start_branch \in Names : plan(start_branch)
    \/ handle_log

SpecPlan == InitPlan /\ [][NextPlan]_vars

(* ---------------------------------------------------------------------- *)
(* Navigation alone, on every graph                                       *)
(* ---------------------------------------------------------------------- *)

\* any acyclic graph whose branches exist in git, HEAD on any branch or detached
InitNav ==
    /\ branches \in Graphs
    /\ gitBranches = Names
    /\ head \in Names \cup {Detached}
    /\ rebaseOf = NoBranch
    /\ checkpoint = NoOp
    /\ pc = "idle"
    /\ cmd = NavCmd("init", 0)
    /\ result = NavRes("ok", "", 0, head)
    /\ calls = <<>>
    /\ report = <<>>
    /\ opRebases = <<>>
    /\ edits = 0
    /\ starts = 0

NextNav ==
    \/ \E count \in 0..MaxCount : handle_up(count)
    \/ \E count \in 0..MaxCount : handle_down(count)
    \/ handle_top
    \/ handle_bottom

SpecNav == InitNav /\ [][NextNav]_vars

(* ---------------------------------------------------------------------- *)
(* The loops over the graph, iteration by iteration                        *)
(* ---------------------------------------------------------------------- *)

\* more iterations than a walk over distinct names can make
Fuel == Cardinality(Names) + 1

\* mutant: at a fork the loop goes round again on the same branch
RECURSIVE top_walk_spinning(_, _, _)
top_walk_spinning(metadata, current, fuel) ==
    LET children == get_children(metadata, current) IN
    IF children = {} THEN [returned |-> TRUE, branch |-> current]
    ELSE IF fuel = 0 THEN [returned |-> FALSE, branch |-> current]
    ELSE IF Cardinality(children) > 1
    THEN top_walk_spinning(metadata, current, fuel - 1)
    ELSE top_walk_spinning(metadata, CHOOSE c \in children : TRUE, fuel - 1)

\* the loop of find_stack_top run for at most `fuel` moves: whether it
\* returned, and the branch it returned (or was on when it was cut off)
RECURSIVE top_walk(_, _, _)
top_walk(metadata, current, fuel) ==
    LET children == get_children(metadata, current) IN
    IF children = {} \/ Cardinality(children) > 1
    THEN [returned |-> TRUE, branch |-> current]
    ELSE IF fuel = 0 THEN [returned |-> FALSE, branch |-> current]
    ELSE top_walk(metadata, CHOOSE c \in children : TRUE, fuel - 1)

\* the loop of find_stack_bottom run for at most `fuel` moves
RECURSIVE bottom_walk(_, _, _)
bottom_walk(metadata, current, fuel) ==
    LET parent == get_parent(metadata, current) IN
    IF ~(parent # NoBranch /\ contains_key(metadata, parent))
    THEN [returned |-> TRUE, branch |-> current]
    ELSE IF fuel = 0 THEN [returned |-> FALSE, branch |-> current]
    ELSE bottom_walk(metadata, parent, fuel - 1)

\* the recursion of collect_branch_sequence::dfs on `branch` returns without
\* nesting deeper than `fuel` calls
RECURSIVE dfs_returns(_, _, _)
dfs_returns(metadata, branch, fuel) ==
    /\ fuel > 0
    /\ \A child \in get_children(metadata, branch) :
          dfs_returns(metadata, child, fuel - 1)

\* any acyclic graph, any branch checked out; the commands that walk the
\* graph, and one bulk operation
InitWalk ==
    /\ branches \in Graphs
    /\ gitBranches = Names
    /\ head \in Names
    /\ rebaseOf = NoBranch
    /\ checkpoint = NoOp
    /\ pc = "idle"
    /\ cmd = [name |-> "init", mode |-> "", all |-> FALSE]
    /\ result = Res("ok", "")
    /\ calls = <<>>
    /\ report = <<>>
    /\ opRebases = <<>>
    /\ edits = 0
    /\ starts = MaxStarts - 1

NextWalk ==
    \/ \E count \in 0..MaxCount : handle_up(count)
    \/ \E count \in 0..MaxCount : handle_down(count)
    \/ handle_top
    \/ handle_bottom
    \/ \E args \in SyncArgs : handle_sync(args)
    \/ \E args \in RestackArgs : handle_restack(args)
    \/ process_pending_operation

SpecWalk == InitWalk /\ [][NextWalk]_vars

(* ---------------------------------------------------------------------- *)
(* Bulk operations that are always resumed                                 *)
(* ---------------------------------------------------------------------- *)

\* the graphs of the end-to-end tests: the chain main <- first <- second <-
\* third and the fork main <- first, first <- second, first <- third
GraphsWithParents ==
    {[n \in {"first", "second", "third"} |->
         IF n = "first" THEN MainBranch
         ELSE IF n = "second" THEN "first" ELSE "second"],
     [n \in {"first", "second", "third"} |->
         IF n = "first" THEN MainBranch ELSE "first"]}

InitLive ==
    /\ branches \in GraphsWithParents
    /\ gitBranches = Names
    /\ head \in Names
    /\ rebaseOf = NoBranch
    /\ checkpoint = NoOp
    /\ pc = "idle"
    /\ cmd = [name |-> "init", mode |-> "", all |-> FALSE]
    /\ result = Res("ok", "")
    /\ calls = <<>>
    /\ report = <<>>
    /\ opRebases = <<>>
    /\ edits = 0
    /\ starts = MaxStarts - 1

\* the step ends in no fatal error, a rebase that fails stops in a conflict,
\* and the operation is not aborted
Favourable ==
    /\ result'.status \notin {"BranchNotFound", "NoRecordedParent",
                              "ExternalToolFailure", "killed"}
    /\ result'.status = "RebaseConflict" => rebaseOf' # NoBranch
    /\ cmd'.mode # "abort"

\* the loop of process_pending_operation goes on while the process runs
Proceeds == process_pending_operation /\ Favourable

\* --continue of the kind of the checkpoint, its rebase --continue succeeding
Resumes ==
    /\ \/ handle_sync(SyncFlags(TRUE, FALSE, FALSE, FALSE))
       \/ handle_restack([continue_rebase |-> TRUE, abort |-> FALSE])
    /\ cmd'.mode = "continue"
    /\ cmd'.name = checkpoint.kind
    /\ Favourable

NextLive ==
    \/ \E args \in SyncArgs : handle_sync(args) /\ Favourable
    \/ \E args \in RestackArgs : handle_restack(args) /\ Favourable
    \/ process_pending_operation /\ Favourable

SpecLive ==
    InitLive /\ [][NextLive]_vars /\ WF_vars(Proceeds) /\ WF_vars(Resumes)

(* ---------------------------------------------------------------------- *)
(* Navigation after a branch was deleted with plain git                    *)
(* ---------------------------------------------------------------------- *)

\* `git branch -D b`, outside the tool: the ref goes, the graph entry stays
\* (the case the "no longer exists" check of process_pending_operation is for)
git_branch_delete(b) ==
    /\ pc = "idle"
    /\ b \in gitBranches
    /\ b # head
    /\ gitBranches' = gitBranches \ {b}
    /\ cmd' = NavCmd("git branch -D", 0)
    /\ result' = NavRes("ok", "", 0, head)
    /\ calls' = <<>>
    /\ report' = <<>>
    /\ UNCHANGED <<branches, head, rebaseOf, checkpoint, pc, opRebases, edits,
                   starts>>

InitGone ==
    /\ branches \in GraphsWithParents
    /\ gitBranches = Names
    /\ head \in Names
    /\ rebaseOf = NoBranch
    /\ checkpoint = NoOp
    /\ pc = "idle"
    /\ cmd = NavCmd("init", 0)
    /\ result = NavRes("ok", "", 0, head)
    /\ calls = <<>>
    /\ report = <<>>
    /\ opRebases = <<>>
    /\ edits = 0
    /\ starts = 0

NextGone ==
    \/ \E count \in 0..MaxCount : handle_up(count)
    \/ \E count \in 0..MaxCount : handle_down(count)
    \/ handle_top
    \/ handle_bottom
    \/ \E b \in Names : git_branch_delete(b)

SpecGone == InitGone /\ [][NextGone]_vars

(* ---------------------------------------------------------------------- *)
(* Properties                                                              *)
(* ---------------------------------------------------------------------- *)

\* a step that runs a new invocation of `pk sync` / `pk restack` in `mode`
Invokes(mode) ==
    /\ pc = "idle"
    /\ cmd'.name \in Kinds
    /\ cmd'.mode = mode

\* C1: starting a sync or a restack while a checkpoint (of either kind)
\* exists fails with "operation already in progress", issues no git request
\* (no checkout, no rebase) and leaves the checkpoint as it was.
C1_StartRefusedWhileInProgress ==
    [][(Invokes("start") /\ checkpoint # NoOp) =>
          /\ result'.status = "OperationAlreadyInProgress"
          /\ pc' = "idle"
          /\ calls' = <<>>
          /\ checkpoint' = checkpoint
          /\ UNCHANGED gitVars]_vars

\* a start of one kind was refused while a checkpoint of the other kind exists
C1_Witness ==
    /\ cmd.mode = "start"
    /\ result.status = "OperationAlreadyInProgress"
    /\ checkpoint # NoOp
    /\ checkpoint.kind # cmd.name
    /\ checkpoint.current_index > 0


(* ---- C2 ---- *)

\* an iteration of process() whose rebase exits non-zero
ConflictStep ==
    /\ pc = "process"
    /\ result'.status = "RebaseConflict"

\* continue_operation whose `git rebase --continue` succeeds
ContinueSucceeds ==
    /\ Invokes("continue")
    /\ checkpoint # NoOp
    /\ cmd'.name = checkpoint.kind
    /\ checkpoint.current_index < Len(checkpoint.branches)
    /\ result'.status # "ExternalToolFailure"

\* C2: when the rebase of branches[i] exits non-zero the command fails with a
\* conflict error, the checkpoint stays on disk with current_index = i (the
\* index of the branch whose rebase failed); a later continue of the same kind
\* whose rebase --continue succeeds persists i + 1, and processing then goes on
\* with branches[i + 1] (every git request of process() is for the branch at
\* the persisted index).
C2_ConflictKeepsIndex ==
    [][/\ ConflictStep =>
            /\ pc' = "idle"
            /\ checkpoint' # NoOp
            /\ checkpoint' = checkpoint
            /\ calls'[Len(calls')].op = "rebase"
            /\ calls'[Len(calls')].branch =
                   checkpoint'.branches[checkpoint'.current_index + 1]
       /\ ContinueSucceeds =>
            /\ calls' = <<RebaseContinue>>
            /\ pc' = "process"
            /\ checkpoint' =
                   [checkpoint EXCEPT !.current_index = checkpoint.current_index + 1]
       /\ (pc = "process" /\ calls' # calls
              /\ checkpoint.current_index < Len(checkpoint.branches)) =>
            calls'[Len(calls) + 1].branch =
                   checkpoint.branches[checkpoint.current_index + 1]]_vars

\* a continue went through and the next branch of the plan was rebased
C2_Witness ==
    /\ cmd.mode = "continue"
    /\ Len(calls) >= 3
    /\ calls[1] = RebaseContinue
    /\ calls[3].op = "rebase"
    /\ Len(opRebases) >= 2
    /\ calls[3] = opRebases[Len(opRebases)]

(* ---- C3 ---- *)

\* C3: operation_state.json is the only checkpoint; whenever it exists its
\* cursor satisfies 0 <= current_index <= len(branches), and while it exists
\* no command replaces it by the checkpoint of another operation.
C3_CheckpointWellFormed ==
    /\ [](checkpoint # NoOp =>
            /\ checkpoint.current_index >= 0
            /\ checkpoint.current_index <= Len(checkpoint.branches))
    /\ [][(checkpoint # NoOp /\ checkpoint' # NoOp) =>
            /\ checkpoint'.kind = checkpoint.kind
            /\ checkpoint'.branches = checkpoint.branches
            /\ checkpoint'.original_branch = checkpoint.original_branch]_vars

\* the cursor at its upper bound, on disk between two invocations
C3_Witness ==
    /\ pc = "idle"
    /\ checkpoint # NoOp
    /\ Len(checkpoint.branches) >= 2
    /\ checkpoint.current_index = Len(checkpoint.branches)

(* ---- C4 ---- *)

\* process() has reached the end of the sequence: the step that runs
\* finalize_operation, in the invocation that started the operation or in a
\* continue
FinalizeStep ==
    /\ checkpoint # NoOp
    /\ checkpoint.current_index >= Len(checkpoint.branches)
    /\ \/ pc = "process" /\ result'.status # "killed"
       \/ Invokes("continue") /\ cmd'.name = checkpoint.kind

\* C4 as claimed: at the end of the sequence the checkpoint is cleared,
\* original_branch is checked out and the whole plan is reported.
C4_Original ==
    [][FinalizeStep =>
          /\ checkpoint' = NoOp
          /\ head' = checkpoint.original_branch
          /\ report' = checkpoint.branches]_vars

\* C4 (amended): at the end of the sequence the checkpoint is cleared and the
\* checkout of original_branch is requested; when that checkout succeeds
\* original_branch is checked out and the whole plan is reported in plan
\* order; when it fails the command fails, HEAD stays and nothing is reported.
C4_FinalizeClearsAndReturns ==
    [][FinalizeStep =>
          /\ checkpoint' = NoOp
          /\ pc' = "idle"
          /\ calls'[Len(calls')] = Checkout(checkpoint.original_branch)
          /\ result'.status \in {"ok", "ExternalToolFailure"}
          /\ result'.status = "ok" =>
                /\ head' = checkpoint.original_branch
                /\ report' = checkpoint.branches
          /\ result'.status = "ExternalToolFailure" =>
                /\ head' = head
                /\ report' = <<>>]_vars

\* an operation finished in a continue and went back to the branch it was
\* started from, which is not the branch processed last
C4_Witness ==
    /\ cmd.mode = "continue"
    /\ result.status = "ok"
    /\ checkpoint = NoOp
    /\ Len(report) >= 2
    /\ head # report[Len(report)]
    /\ calls[Len(calls)] = Checkout(head)


(* ---- C5 ---- *)

Range(seq) == {seq[i] : i \in 1..Len(seq)}

\* the tracked branches below s
Descendants(metadata, s) == {d \in DOMAIN metadata : s \in Ancestors(metadata, d)}

\* seq is the pre-order depth-first listing of the subtree of s, siblings in
\* string order
IsPreOrder(metadata, s, seq) ==
    IF s \notin DOMAIN metadata THEN seq = <<>>
    ELSE /\ Range(seq) = {s} \cup Descendants(metadata, s)
         /\ Len(seq) = Cardinality(Range(seq))
         /\ seq[1] = s
         /\ \A i \in 2..Len(seq) : \E j \in 1..(i - 1) : seq[j] = metadata[seq[i]]
         /\ \A i, j \in 2..Len(seq) :
               (i < j /\ metadata[seq[i]] = metadata[seq[j]]) =>
                   Rank(seq[i]) < Rank(seq[j])
         /\ \A i \in 1..Len(seq) :
               LET n == Cardinality(Descendants(metadata, seq[i])) IN
               /\ i + n <= Len(seq)
               /\ {seq[k] : k \in (i + 1)..(i + n)} = Descendants(metadata, seq[i])

\* C5: on an acyclic graph collect_sequence(start) is the pre-order
\* depth-first listing from start: start and each of its tracked descendants
\* exactly once and nothing else, every branch after its parent, siblings in
\* lexicographic order; it is empty for an untracked start.
C5_PlanIsPreOrder ==
    cmd.name = "plan" => IsPreOrder(branches, cmd.mode, report)

\* a plan over a fork whose first child has a child of its own
C5_Witness ==
    /\ cmd.name = "plan"
    /\ Len(report) = 4
    /\ Cardinality(get_children(branches, report[1])) = 2
    /\ branches[report[3]] = report[2]
    /\ branches[report[4]] = report[1]

(* ---- C6 ---- *)

\* a bulk operation has just reached Done and printed its report
Done ==
    /\ pc = "idle"
    /\ cmd.name \in Kinds
    /\ cmd.mode \in {"start", "continue"}
    /\ result.status = "ok"
    /\ report # <<>>

\* C6: in an operation that reaches Done exactly one rebase was requested per
\* branch of the plan, in plan order, each onto the parent recorded for that
\* branch when the request is made; hence a branch whose parent is in the plan
\* was rebased only after that parent.
C6_OneRebasePerBranchInOrder ==
    /\ [](Done =>
            /\ Len(opRebases) = Len(report)
            /\ \A i \in 1..Len(report) : opRebases[i].branch = report[i]
            /\ \A i, j \in 1..Len(report) :
                  opRebases[i].onto = report[j] => j < i)
    /\ [][opRebases' # opRebases /\ opRebases' # <<>> =>
            opRebases'[Len(opRebases')].onto =
                get_parent(branches, opRebases'[Len(opRebases')].branch)]_vars

(* ---- C7 ---- *)

\* the first tracked ancestor-or-self of b whose recorded parent is untracked
\* or absent
BottomOf(metadata, b) ==
    CHOOSE a \in ({b} \cup Ancestors(metadata, b)) \cap DOMAIN metadata :
        get_parent(metadata, a) \notin DOMAIN metadata

\* a step that runs `pk sync` / `pk restack` without --continue / --abort
\* while no operation is in progress
StartStep == Invokes("start") /\ checkpoint = NoOp

\* C7: plain `pk sync` plans the pre-order listing from the current branch;
\* `pk sync --all`, `pk sync --from-main` and `pk restack` plan it from the
\* bottom of the current branch's stack; the new checkpoint has the command's
\* kind, index 0 and original_branch = the current branch; when the current
\* branch is not tracked the command fails and no checkpoint is created.
C7_StartPlansScope ==
    [][StartStep =>
          IF head \notin DOMAIN branches
          THEN /\ result'.status \in {"UntrackedCurrentBranch", "HeadNotOnBranch"}
               /\ checkpoint' = NoOp
               /\ pc' = "idle"
          ELSE /\ checkpoint' # NoOp
               /\ checkpoint'.kind = cmd'.name
               /\ checkpoint'.current_index = 0
               /\ checkpoint'.original_branch = head
               /\ IsPreOrder(branches,
                             IF cmd'.name = "sync" /\ ~cmd'.all
                             THEN head ELSE BottomOf(branches, head),
                             checkpoint'.branches)]_vars

\* a whole-stack sync started from a branch that is not the bottom
C7_Witness ==
    /\ pc = "process"
    /\ cmd.name = "sync" /\ cmd.mode = "start" /\ cmd.all
    /\ checkpoint.current_index = 0
    /\ Len(checkpoint.branches) >= 2
    /\ checkpoint.original_branch = checkpoint.branches[Len(checkpoint.branches)]
    /\ head = checkpoint.original_branch

(* ---- C8 ---- *)

\* C8 as claimed: every sync starts at the bottom of the current stack.
C8_Original ==
    [][(StartStep /\ cmd'.name = "sync" /\ checkpoint' # NoOp) =>
          checkpoint'.branches[1] = BottomOf(branches, head)]_vars

\* C8 (amended): a sync started with --all or --from-main starts at the bottom
\* of the current stack; a sync started without them starts at the current
\* branch, whether or not that is the bottom.
C8_SyncStartsAtScope ==
    [][(StartStep /\ cmd'.name = "sync" /\ checkpoint' # NoOp) =>
          /\ checkpoint'.kind = "sync"
          /\ cmd'.all => checkpoint'.branches[1] = BottomOf(branches, head)
          /\ ~cmd'.all => checkpoint'.branches[1] = head]_vars

\* a plain sync started in the middle of a stack
C8_Witness ==
    /\ pc = "process"
    /\ cmd.name = "sync" /\ cmd.mode = "start" /\ ~cmd.all
    /\ checkpoint.kind = "sync"
    /\ checkpoint.current_index = 0
    /\ checkpoint.branches[1] = head
    /\ BottomOf(branches, head) # head

(* ---- C9 ---- *)

\* C9: once abort_operation has passed the existence and kind checks the
\* checkpoint is cleared, whatever `git rebase --abort` returns.
C9_AbortAlwaysClears ==
    [][(Invokes("abort") /\ checkpoint # NoOp /\ checkpoint.kind = cmd'.name) =>
          /\ checkpoint' = NoOp
          /\ pc' = "idle"]_vars

(* ---- C10 ---- *)

\* C10: --continue and --abort fail with "no operation in progress" when there
\* is no checkpoint, and with a kind-mismatch error naming the command of the
\* checkpoint's kind when the checkpoint is of the other kind; in both cases
\* no git request is made and checkpoint, graph and git state are untouched.
C10_ContinueAbortChecks ==
    [][(Invokes("continue") \/ Invokes("abort")) =>
          /\ checkpoint = NoOp =>
                /\ result' = Res("NoOperationInProgress", cmd'.name)
                /\ calls' = <<>>
                /\ pc' = "idle"
                /\ UNCHANGED <<checkpoint, branches, gitVars>>
          /\ (checkpoint # NoOp /\ checkpoint.kind # cmd'.name) =>
                /\ result' = Res("OperationKindMismatch",
                                 IF checkpoint.kind = "sync" THEN "pk sync"
                                 ELSE "pk restack")
                /\ calls' = <<>>
                /\ pc' = "idle"
                /\ UNCHANGED <<checkpoint, branches, gitVars>>]_vars

\* an abort of the wrong kind was refused while a conflict is outstanding
C10_Witness ==
    /\ cmd.mode = "abort"
    /\ result.status = "OperationKindMismatch"
    /\ checkpoint # NoOp
    /\ checkpoint.kind # cmd.name
    /\ rebaseOf # NoBranch

(* ---- C11 ---- *)

\* the invocation has ended with an error that is not a rebase conflict
FailsOtherwise ==
    result'.status \notin {"ok", "running", "killed", "RebaseConflict"}

\* C11: a command that fails with an error other than a rebase conflict leaves
\* the graph and the checkpoint (its presence included) as they were before
\* the command: a command that fails in its first step changes neither, and a
\* bulk operation started by this invocation (no checkpoint before it) that
\* fails fatally inside process() leaves no checkpoint behind.
C11_FailureLeavesPersistedState ==
    [][FailsOtherwise =>
          /\ branches' = branches
          /\ pc = "idle" => checkpoint' = checkpoint
          /\ (pc = "process" /\ cmd.mode = "start") => checkpoint' = NoOp]_vars

(* ---- C12 ---- *)

\* the process was killed right after process() saved an incremented cursor,
\* branches remain, and the next command is a continue of the same kind
ContinueAfterKill ==
    /\ result.status = "killed"
    /\ Invokes("continue")
    /\ cmd'.name = checkpoint.kind
    /\ checkpoint.current_index > 0
    /\ has_next(checkpoint)

\* C12: after a kill that follows the save of the incremented current_index, a
\* continue of the same kind resumes the operation at branches[current_index]:
\* it goes on processing with the cursor where the kill left it, so that no
\* completed branch is rebased again and no unprocessed branch is skipped.
C12_ContinueResumesAfterKill ==
    [][ContinueAfterKill =>
          /\ pc' = "process"
          /\ checkpoint' = checkpoint]_vars

(* ---- C13 ---- *)

\* `pk branch delete` of a branch with recorded children whose underlying
\* branch deletion fails; the deleted branch is the children's parent
DeleteFails ==
    /\ pc = "idle"
    /\ cmd'.name = "branch delete"
    /\ result'.status = "ExternalToolFailure"
    /\ report' # <<>>

\* C13 as claimed: after the failed deletion of X the graph on disk has X's
\* children re-parented onto X's parent, while X still exists and keeps its
\* entry.
C13_Original ==
    [][DeleteFails =>
          \A c \in Range(report') :
              /\ branches'[c] = get_parent(branches, branches[c])
              /\ branches[c] \in gitBranches'
              /\ branches[c] \in DOMAIN branches => branches[c] \in DOMAIN branches']_vars

\* C13 (amended): when the underlying deletion of X fails, the graph on disk
\* is exactly what it was: X's children still have X as recorded parent, and X
\* still exists with its entry, if it had one; the re-parenting was only
\* announced.
C13_FailedDeleteKeepsGraph ==
    [][DeleteFails =>
          /\ branches' = branches
          /\ gitBranches' = gitBranches
          /\ \A c \in Range(report') :
                /\ branches'[c] = branches[c]
                /\ branches'[c] \in gitBranches'
                /\ branches'[c] # head]_vars

\* the deletion of a tracked branch with a child failed and the child is
\* still recorded on top of it
C13_Witness ==
    /\ cmd.name = "branch delete"
    /\ result.status = "ExternalToolFailure"
    /\ report # <<>>
    /\ \A c \in Range(report) :
          /\ branches[c] \in DOMAIN branches
          /\ branches[c] \in gitBranches
          /\ branches[branches[c]] # branches[c]

(* ---- C14 ---- *)

\* the nodes of the tree below (and including) a node
RECURSIVE NodesOf(_)
NodesOf(node) ==
    {node} \cup UNION {NodesOf(node.children[i]) : i \in 1..Len(node.children)}

RootsOf(forest, kind) == {forest[i] : i \in {k \in 1..Len(forest) : forest[k].kind = kind}}

\* every branch node of a forest
AllNodes(forest) ==
    UNION ({NodesOf(r.node) : r \in RootsOf(forest, "Standalone")}
           \cup {UNION {NodesOf(r.children[i]) : i \in 1..Len(r.children)} :
                    r \in RootsOf(forest, "ExternalParent")})

ChildNames(x) == {x.children[i].name : i \in 1..Len(x.children)}

\* the names shown directly under the root or node named P
ShownUnder(forest, P) ==
    UNION {ChildNames(x) : x \in {r \in RootsOf(forest, "ExternalParent") : r.name = P}
                                \cup {n \in AllNodes(forest) : n.name = P}}

StandaloneNames(forest) == {r.node.name : r \in RootsOf(forest, "Standalone")}

\* C14: a successful `pk branch delete X` of a tracked X removes X's entry,
\* gives each of the N branches whose parent was X the parent X had, leaves
\* every other entry as it was and reports the N children; in the forest built
\* from the new graph the N branches are listed together under X's former
\* parent (as roots of their own when X had no recorded parent).
C14_DeleteRestacksChildren ==
    [][(pc = "idle" /\ cmd'.name = "branch delete" /\ result'.status = "ok") =>
          LET X == CHOOSE x \in gitBranches : x \notin gitBranches'
              P == get_parent(branches, X)
              kids == {n \in DOMAIN branches : branches[n] = X}
              forest == build_stack_forest(branches')
          IN X \in DOMAIN branches =>
                /\ DOMAIN branches' = DOMAIN branches \ {X}
                /\ \A n \in DOMAIN branches' :
                      branches'[n] = IF n \in kids THEN P ELSE branches[n]
                /\ Len(report') = Cardinality(kids)
                /\ Range(report') = kids
                /\ kids # {} =>
                      IF P = NoBranch THEN kids \subseteq StandaloneNames(forest)
                      ELSE kids \subseteq ShownUnder(forest, P)]_vars

\* a branch with two children was deleted and both are now recorded, and
\* shown, on top of its former parent
C14_Witness ==
    /\ cmd.name = "branch delete"
    /\ result.status = "ok"
    /\ Len(report) = 2
    /\ branches[report[1]] = branches[report[2]]
    /\ branches[report[1]] \in gitBranches
    /\ ShownUnder(build_stack_forest(branches), branches[report[1]]) = Range(report)

(* ---- C15 ---- *)

\* the branches passed when going from b up to its descendant t, t excluded
Between(metadata, b, t) ==
    {x \in Ancestors(metadata, t) : x = b \/ b \in Ancestors(metadata, x)}

\* t is reached from b through only children, and is a tip or a fork
IsTop(metadata, b, t) ==
    /\ t = b \/ b \in Ancestors(metadata, t)
    /\ Cardinality(get_children(metadata, t)) # 1
    /\ \A x \in Between(metadata, b, t) :
          Cardinality(get_children(metadata, x)) = 1

\* C15: find_top(b) is the first branch with zero or several children reached
\* from b by following only children; for a b with two or more children it is
\* b itself, never one of the children.
C15_TopStopsAtFork ==
    \A b \in Names :
        /\ IsTop(branches, b, find_stack_top(branches, b))
        /\ \A t \in Names : IsTop(branches, b, t) => t = find_stack_top(branches, b)
        /\ Cardinality(get_children(branches, b)) >= 2 =>
              find_stack_top(branches, b) = b

\* `pk top` on a fork stayed on the fork
C15_Witness ==
    /\ cmd.name = "top"
    /\ result.status = "ok"
    /\ result.names = "already at the top"
    /\ head = result.from
    /\ Cardinality(get_children(branches, head)) >= 2

(* ---- C16 ---- *)

\* C16: for a tracked b in an acyclic graph find_bottom(b) is the first
\* ancestor-or-self of b whose recorded parent is untracked or absent (every
\* branch passed before it has a tracked parent), and find_bottom applied to
\* it returns it again.
C16_BottomIsFixedPoint ==
    \A b \in DOMAIN branches :
        LET a == find_stack_bottom(branches, b) IN
        /\ a = BottomOf(branches, b)
        /\ a = b \/ a \in Ancestors(branches, b)
        /\ get_parent(branches, a) \notin DOMAIN branches
        /\ \A x \in ({b} \cup Ancestors(branches, b)) \ {a} :
              a \in Ancestors(branches, x) => get_parent(branches, x) \in DOMAIN branches
        /\ find_stack_bottom(branches, a) = a

\* `pk bottom` went down more than one branch, and a second `pk bottom` would
\* stay there
C16_Witness ==
    /\ cmd.name = "bottom"
    /\ result.status = "ok"
    /\ result.names = "switched"
    /\ head = find_stack_bottom(branches, result.from)
    /\ branches[result.from] # head
    /\ get_parent(branches, head) \in Names \ DOMAIN branches
    /\ find_stack_bottom(branches, head) = head

(* ---- C17 ---- *)

\* a step that runs `pk up` / `pk down` / `pk top` / `pk bottom` on a branch
Navigates(name) ==
    /\ pc = "idle"
    /\ cmd'.name = name
    /\ head \in Names

\* the walks of k hops from b in which every branch left has exactly one
\* child, the next branch of the walk
UpPaths(metadata, b, k) ==
    {p \in [0..k -> Names] :
        /\ p[0] = b
        /\ \A j \in 0..(k - 1) : get_children(metadata, p[j]) = {p[j + 1]}}

\* C17: `pk up count` succeeds exactly when each of the count branches left,
\* starting from the current one, has exactly one child, and then checks out
\* the count-th descendant; when a branch without children is met at hop i the
\* command fails without a checkout, with the "has no children in the stack"
\* message for i = 0 and the "only moved i" message for i > 0.
C17_UpFollowsOnlyChildren ==
    [][Navigates("up") =>
          LET count == cmd'.count IN
          /\ result'.status = "ok" <=> UpPaths(branches, head, count) # {}
          /\ \A p \in UpPaths(branches, head, count) :
                /\ calls' = <<Checkout(p[count])>>
                /\ head' = p[count]
          /\ \A i \in 0..(count - 1) : \A p \in UpPaths(branches, head, i) :
                get_children(branches, p[i]) = {} =>
                   /\ calls' = <<>>
                   /\ head' = head
                   /\ result'.status = IF i = 0 THEN "NoChildren" ELSE "OnlyMoved"
                   /\ result'.moved = i]_vars

\* `pk up 2` moved to the child of the only child
C17_Witness ==
    /\ cmd.name = "up"
    /\ cmd.count = 2
    /\ result.status = "ok"
    /\ head # result.from
    /\ get_children(branches, result.from) = {branches[head]}
    /\ get_children(branches, branches[head]) = {head}

(* ---- C18 ---- *)

\* `pk up` ended on one of the two errors about several children
ForkError == result'.status \in {"MultipleChildren", "SelectionNotImplemented"}

\* C18 as claimed: several children make `pk up` fail only when they are met
\* on the first hop.
C18_Original ==
    [][(Navigates("up") /\ ForkError) => result'.moved = 0]_vars

\* C18 (amended): a branch with more than one child met at any hop i < count
\* makes `pk up count` fail without a checkout: with the "cannot automatically
\* navigate" error when count > 1, whatever the hop, and with the list of the
\* children and the "selection not implemented" error when count = 1.
C18_ForkStopsUpAtAnyHop ==
    [][Navigates("up") =>
          LET count == cmd'.count IN
          /\ \A i \in 0..(count - 1) : \A p \in UpPaths(branches, head, i) :
                Cardinality(get_children(branches, p[i])) > 1 =>
                   /\ calls' = <<>>
                   /\ head' = head
                   /\ result'.moved = i
                   /\ result'.status = IF count > 1 THEN "MultipleChildren"
                                       ELSE "SelectionNotImplemented"
          /\ ForkError =>
                /\ result'.moved < count
                /\ \E p \in UpPaths(branches, head, result'.moved) :
                      Cardinality(get_children(branches, p[result'.moved])) > 1]_vars

\* a multi-hop `pk up` failed on a fork it met after its first hop
C18_Witness ==
    /\ cmd.name = "up"
    /\ cmd.count > 1
    /\ result.status = "MultipleChildren"
    /\ result.moved = 1
    /\ head = result.from
    /\ calls = <<>>

(* ---- C19 ---- *)

\* the walks of k hops from b along recorded parents that are tracked
DownPaths(metadata, b, k) ==
    {p \in [0..k -> Names] :
        /\ p[0] = b
        /\ \A j \in 0..(k - 1) :
              /\ p[j + 1] = get_parent(metadata, p[j])
              /\ p[j + 1] \in DOMAIN metadata}

\* C19: `pk down count` checks out the count-th ancestor only when every
\* parent on the way is tracked, so it never lands on an untracked branch;
\* when at hop i the parent is untracked or absent the command fails without
\* a checkout, with the "has no parent in the stack" message for i = 0 and the
\* "only moved i" message for i > 0.
C19_DownStaysOnTracked ==
    [][Navigates("down") =>
          LET count == cmd'.count IN
          /\ result'.status = "ok" <=> DownPaths(branches, head, count) # {}
          /\ \A p \in DownPaths(branches, head, count) :
                /\ calls' = <<Checkout(p[count])>>
                /\ head' = p[count]
          /\ (result'.status = "ok" /\ count > 0) => head' \in DOMAIN branches
          /\ \A i \in 0..(count - 1) : \A p \in DownPaths(branches, head, i) :
                get_parent(branches, p[i]) \notin DOMAIN branches =>
                   /\ calls' = <<>>
                   /\ head' = head
                   /\ result'.status = IF i = 0 THEN "NoParent" ELSE "OnlyMoved"
                   /\ result'.moved = i]_vars

\* `pk down` stopped below an untracked recorded parent after one hop
C19_Witness ==
    /\ cmd.name = "down"
    /\ result.status = "OnlyMoved"
    /\ result.moved = 1
    /\ head = result.from
    /\ calls = <<>>
    /\ branches[branches[head]] \in Names \ DOMAIN branches

(* ---- C20 ---- *)

\* C20: `pk top` and `pk bottom` fail when the current branch is not tracked;
\* otherwise they check out find_top(current) / find_bottom(current) when it
\* is another branch, and when it is the current branch they report "already
\* at the top/bottom", succeed and make no checkout.
C20_TopBottomJump ==
    [][(Navigates("top") \/ Navigates("bottom")) =>
          LET target == IF cmd'.name = "top" THEN find_stack_top(branches, head)
                        ELSE find_stack_bottom(branches, head)
          IN IF head \notin DOMAIN branches
             THEN /\ result'.status = "UntrackedCurrentBranch"
                  /\ calls' = <<>>
                  /\ head' = head
             ELSE IF target # head
             THEN /\ result'.status = "ok"
                  /\ result'.names = "switched"
                  /\ calls' = <<Checkout(target)>>
                  /\ head' = target
             ELSE /\ result'.status = "ok"
                  /\ result'.names = "already at the " \o cmd'.name
                  /\ calls' = <<>>
                  /\ head' = head]_vars

\* `pk bottom` on the bottom of a stack that has branches on top of it
C20_Witness ==
    /\ cmd.name = "bottom"
    /\ result.status = "ok"
    /\ result.names = "already at the bottom"
    /\ calls = <<>>
    /\ head = result.from
    /\ head \in DOMAIN branches
    /\ get_children(branches, head) # {}

(* ---- C21 ---- *)

\* C21: a successful `pk branch create n` adds exactly the entry n, with the
\* base branch (the current branch, or the --base branch) as recorded parent,
\* leaves every other entry as it was and checks out n; when a branch named n
\* already exists, or the given base does not exist, the command fails and
\* graph, branches and HEAD are unchanged.
C21_CreateAddsOneEntry ==
    [][cmd'.name = "branch create" =>
          IF result'.status = "ok"
          THEN /\ head' \notin gitBranches
               /\ branches'[head'] \in gitBranches
               /\ \A base \in Names \cup {NoBranch} :
                     handle_branch_create(head', base) =>
                        /\ DOMAIN branches' = DOMAIN branches \cup {head'}
                        /\ branches'[head'] = IF base = NoBranch THEN head ELSE base
                        /\ \A m \in DOMAIN branches \ {head'} :
                              branches'[m] = branches[m]
                        /\ gitBranches' = gitBranches \cup {head'}
          ELSE /\ result'.status \in {"BranchAlreadyExists", "BranchNotFound",
                                      "HeadNotOnBranch"}
               /\ branches' = branches
               /\ gitBranches' = gitBranches
               /\ head' = head]_vars

\* a branch was created on top of a tracked branch and is checked out
C21_Witness ==
    /\ cmd.name = "branch create"
    /\ result.status = "ok"
    /\ head \in DOMAIN branches
    /\ branches[head] \in DOMAIN branches
    /\ get_children(branches, head) = {}

(* ---- C22 ---- *)

\* C22: `pk branch delete n` of a branch that does not exist, or of the
\* branch checked out, fails and leaves the graph, the set of branches and
\* HEAD unchanged.
C22_DeleteRefused ==
    [][\A n \in Names, force \in BOOLEAN :
          (/\ cmd'.name = "branch delete"
           /\ n \notin gitBranches \/ n = head
           /\ handle_branch_delete(n, force)) =>
             /\ result'.status =
                   IF n \notin gitBranches THEN "BranchNotFound" ELSE "DeleteCurrentBranch"
             /\ branches' = branches
             /\ gitBranches' = gitBranches
             /\ head' = head]_vars

\* the deletion of the checked-out branch, which has a branch on top of it,
\* was refused
C22_Witness ==
    /\ cmd.name = "branch delete"
    /\ result.status = "DeleteCurrentBranch"
    /\ head \in DOMAIN branches
    /\ get_children(branches, head) # {}

(* ---- C23 ---- *)

\* how many nodes named b the tree of a node, a list of nodes, a forest has
RECURSIVE CountNode(_, _), CountNodes(_, _, _), CountRoots(_, _, _)
CountNode(node, b) ==
    (IF node.name = b THEN 1 ELSE 0) + CountNodes(node.children, b, Len(node.children))

CountNodes(nodes, b, k) ==
    IF k = 0 THEN 0 ELSE CountNode(nodes[k], b) + CountNodes(nodes, b, k - 1)

CountRoots(forest, b, k) ==
    IF k = 0 THEN 0
    ELSE (IF forest[k].kind = "Standalone" THEN CountNode(forest[k].node, b)
          ELSE CountNodes(forest[k].children, b, Len(forest[k].children)))
         + CountRoots(forest, b, k - 1)

\* the children of x are the branches recorded on `name`, in name order
ListsChildrenOf(metadata, x, name) ==
    /\ ChildNames(x) = get_children(metadata, name)
    /\ Len(x.children) = Cardinality(get_children(metadata, name))
    /\ \A i, j \in 1..Len(x.children) :
          i < j => Rank(x.children[i].name) < Rank(x.children[j].name)

\* forest places the branches of metadata as C23 says
WellPlaced(metadata, forest) ==
    LET external == RootsOf(forest, "ExternalParent")
        untracked == {metadata[n] : n \in DOMAIN metadata} \ (DOMAIN metadata \cup {NoBranch})
    IN
    /\ \A b \in DOMAIN metadata : CountRoots(forest, b, Len(forest)) = 1
    /\ \A x \in AllNodes(forest) :
          x.name \in DOMAIN metadata /\ ListsChildrenOf(metadata, x, x.name)
    /\ {r.name : r \in external} = untracked
    /\ Cardinality({i \in 1..Len(forest) : forest[i].kind = "ExternalParent"})
          = Cardinality(untracked)
    /\ \A r \in external : ListsChildrenOf(metadata, r, r.name)
    /\ StandaloneNames(forest) = {n \in DOMAIN metadata : metadata[n] = NoBranch}

\* C23: for an acyclic graph the forest has every tracked branch exactly once:
\* under the node of its parent when the parent is tracked, under the
\* external-parent root named after its parent when the parent is untracked,
\* as a standalone root when it has no parent; there is one external-parent
\* root per untracked parent name, and the children of every root and node are
\* in lexicographic order.
C23_ForestPlacesEachBranchOnce ==
    (cmd.name = "log" /\ DOMAIN branches # {}) => WellPlaced(branches, report)

\* a forest with an external-parent root, a standalone root and a branch
\* below a branch
C23_Witness ==
    /\ cmd.name = "log"
    /\ RootsOf(report, "ExternalParent") # {}
    /\ RootsOf(report, "Standalone") # {}
    /\ \E x \in AllNodes(report) : Len(x.children) > 0

(* ---- C24 ---- *)

\* the running / last command is a `pk restack` given right after a
\* `pk restack` that started and completed in one invocation, every rebase
\* succeeding
Again ==
    /\ cmd.name = "restack"
    /\ cmd.mode = "start"
    /\ cmd.previous # <<>>

\* C24: a restack run again right after a completed restack, from the branch
\* that one returned to and with the graph as it was, plans the sequence the
\* first one reported; it stops early only when a git request fails (or the
\* process is killed), and otherwise completes, reports that same sequence and
\* ends with no checkpoint, the same branch checked out and the same graph.
C24_RestackTwice ==
    /\ [](Again =>
            /\ checkpoint # NoOp => checkpoint.branches = cmd.previous
            /\ pc = "idle" =>
                  /\ result.status \in {"ok", "ExternalToolFailure",
                                        "RebaseConflict", "killed"}
                  /\ result.status = "ok" =>
                        report = cmd.previous /\ checkpoint = NoOp)
    /\ [][/\ (Invokes("start") /\ Again') =>
                /\ pc' = "process"
                /\ checkpoint'.original_branch = head
                /\ branches' = branches
          /\ (Again /\ pc = "process") =>
                /\ branches' = branches
                /\ result'.status = "ok" => head' = checkpoint.original_branch
                /\ checkpoint' # NoOp =>
                      checkpoint'.original_branch = checkpoint.original_branch]_vars

\* the second restack of a stack of two completed with the report of the first
C24_Witness ==
    /\ Again
    /\ pc = "idle"
    /\ result.status = "ok"
    /\ checkpoint = NoOp
    /\ Len(report) >= 2
    /\ report = cmd.previous
    /\ head = report[Len(report)]

(* ---- C25 ---- *)

\* C25: a successful abort requests no checkout: it leaves checked out the
\* branch git's rebase --abort returns to, the branch at current_index that
\* was being rebased, whether or not that is original_branch; the graph is as
\* it was.
C25_AbortStaysOnRebasedBranch ==
    [][(Invokes("abort") /\ result'.status = "ok") =>
          /\ calls' = <<RebaseAbort>>
          /\ has_next(checkpoint)
          /\ head' = checkpoint.branches[checkpoint.current_index + 1]
          /\ checkpoint' = NoOp
          /\ branches' = branches]_vars

\* an abort succeeded and left checked out a branch other than the one the
\* operation was started from
C25_Witness ==
    /\ cmd.name \in Kinds
    /\ cmd.mode = "abort"
    /\ result.status = "ok"
    /\ checkpoint = NoOp
    /\ Len(opRebases) >= 1
    /\ head = opRebases[Len(opRebases)].branch
    /\ cmd.original \in DOMAIN branches
    /\ head # cmd.original

(* ---- C26 ---- *)

\* C26: after any sequence of branch create and branch delete commands,
\* successful or failed, on a graph built by such commands, no tracked branch
\* is among its own ancestors in the recorded parent relation.
C26_GraphStaysAcyclic == Acyclic(branches)

\* `first` was deleted, its children re-parented, and created again on top
\* of one of its former children
C26_Witness ==
    /\ cmd.name = "branch create"
    /\ result.status = "ok"
    /\ head = "first"
    /\ contains_key(branches, "first")
    /\ branches["first"] \in {"second", "third"}
    /\ contains_key(branches, branches["first"])
    /\ Acyclic(branches)

(* ---- C27 ---- *)

\* no name is the recorded parent of two branches
OneChildEach(metadata) ==
    \A n \in Names : Cardinality(get_children(metadata, n)) <= 1

\* up(k) from b ends on t
UpLands(metadata, b, k, t) ==
    LET walk == up_walk(metadata, b, 0, k)
    IN walk.status = "ok" /\ walk.target = t

\* down(k) from t ends on b
DownLands(metadata, t, k, b) ==
    LET walk == down_walk(metadata, t, 0, k)
    IN walk.status = "ok" /\ walk.target = b

\* C27: in a graph where every branch has at most one child, for tracked
\* branches b and t and k >= 1, `pk up k` run on b succeeds and lands on t
\* exactly when `pk down k` run on t succeeds and lands on b.
C27_UpDownRoundTrip ==
    /\ [](OneChildEach(branches) =>
            \A b \in DOMAIN branches, t \in DOMAIN branches, k \in 1..MaxCount :
                UpLands(branches, b, k, t) <=> DownLands(branches, t, k, b))
    /\ [][(/\ OneChildEach(branches)
           /\ cmd'.name \in {"up", "down"}
           /\ cmd'.count >= 1
           /\ head \in DOMAIN branches
           /\ head' \in DOMAIN branches) =>
             /\ (cmd'.name = "up" /\ result'.status = "ok") <=>
                    (cmd'.name = "up" /\ DownLands(branches, head', cmd'.count, head))
             /\ (cmd'.name = "down" /\ result'.status = "ok") <=>
                    (cmd'.name = "down" /\ UpLands(branches, head', cmd'.count, head))]_vars

\* `pk down 2` went from the top of a chain of three to its bottom, from
\* where `pk up 2` leads back
C27_Witness ==
    /\ cmd.name = "down"
    /\ cmd.count >= 2
    /\ result.status = "ok"
    /\ OneChildEach(branches)
    /\ result.from \in DOMAIN branches
    /\ head \in DOMAIN branches
    /\ head # result.from
    /\ UpLands(branches, head, cmd.count, result.from)

(* ---- C28 ---- *)

FatalStatuses == {"BranchNotFound", "NoRecordedParent", "ExternalToolFailure"}

\* C28: when the loop of process_pending_operation finds that the branch at
\* current_index no longer exists, has no recorded parent or cannot be
\* checked out, the command ends with that error, no rebase is requested for
\* the branch (and no checkout either in the first two cases), and the
\* checkpoint keeps the current_index it had.
C28_FatalKeepsIndex ==
    [][(pc = "process" /\ has_next(checkpoint) /\ result'.status # "killed") =>
          LET b == checkpoint.branches[checkpoint.current_index + 1] IN
          /\ b \notin gitBranches => result'.status = "BranchNotFound"
          /\ (b \in gitBranches /\ get_parent(branches, b) = NoBranch) =>
                result'.status = "NoRecordedParent"
          /\ result'.status \in FatalStatuses =>
                /\ pc' = "idle"
                /\ checkpoint' = checkpoint
                /\ opRebases' = opRebases
                /\ calls' = IF result'.status = "ExternalToolFailure"
                            THEN Append(calls, Checkout(b)) ELSE calls
                /\ UNCHANGED <<branches, gitVars>>]_vars

\* a continued operation stopped at a branch of its plan that was deleted
\* while the operation was paused
C28_Witness ==
    /\ pc = "idle"
    /\ cmd.mode = "continue"
    /\ result.status = "BranchNotFound"
    /\ checkpoint # NoOp
    /\ checkpoint.current_index >= 1
    /\ has_next(checkpoint)
    /\ checkpoint.branches[checkpoint.current_index + 1] \notin gitBranches
    /\ \A j \in 1..Len(calls) :
          calls[j].branch # checkpoint.branches[checkpoint.current_index + 1]

\* the same for a branch left without a recorded parent
C28_NoParentReached ==
    /\ pc = "idle"
    /\ result.status = "NoRecordedParent"
    /\ checkpoint # NoOp

\* the same for a branch that could not be checked out
C28_CheckoutFailureReached ==
    /\ pc = "idle"
    /\ result.status = "ExternalToolFailure"
    /\ checkpoint # NoOp
    /\ calls # <<>>
    /\ calls[Len(calls)].op = "checkout"

(* ---- C29 ---- *)

\* the last command was a --continue whose `git rebase --continue` failed
ContinueFailed ==
    /\ pc = "idle"
    /\ cmd.name \in Kinds
    /\ cmd.mode = "continue"
    /\ calls = <<RebaseContinue>>

\* C29: when `git rebase --continue` fails in continue_operation the command
\* fails, the checkpoint is as it was (same current_index), nothing else is
\* checked out or rebased, and a following --continue or --abort of the same
\* kind passes the checkpoint checks and goes on to its git request.
C29_FailedContinueKeepsCheckpoint ==
    /\ [][(Invokes("continue") /\ ContinueFailed') =>
             /\ result'.status = "ExternalToolFailure"
             /\ checkpoint # NoOp
             /\ checkpoint' = checkpoint
             /\ opRebases' = opRebases
             /\ UNCHANGED <<branches, gitVars>>]_vars
    /\ [][(/\ ContinueFailed
           /\ (Invokes("continue") \/ Invokes("abort"))
           /\ cmd'.name = cmd.name) =>
             /\ result'.status \notin {"NoOperationInProgress",
                                       "OperationKindMismatch"}
             /\ calls' # <<>>]_vars

\* a --continue failed while the rebase of the second branch of the plan was
\* still stopped; the checkpoint points at that branch
C29_Witness ==
    /\ ContinueFailed
    /\ result.status = "ExternalToolFailure"
    /\ checkpoint # NoOp
    /\ checkpoint.current_index >= 1
    /\ has_next(checkpoint)
    /\ rebaseOf = checkpoint.branches[checkpoint.current_index + 1]

(* ---- C30 ---- *)

\* the step is an iteration of the loop whose rebase succeeded
RebaseStepSucceeds ==
    /\ pc = "process"
    /\ has_next(checkpoint)
    /\ pc' = "process"
    /\ opRebases' = Append(opRebases,
                           Rebase(checkpoint.branches[checkpoint.current_index + 1],
                                  get_parent(branches,
                                             checkpoint.branches[checkpoint.current_index + 1])))

\* the step is a --continue whose `git rebase --continue` succeeded
RebaseContinueSucceeds ==
    /\ Invokes("continue")
    /\ cmd'.name = checkpoint.kind
    /\ calls' = <<RebaseContinue>>
    /\ pc' = "process"

\* the step is a --abort whose `git rebase --abort` succeeded
AbortSucceeds ==
    /\ Invokes("abort")
    /\ cmd'.name = checkpoint.kind
    /\ calls' = <<RebaseAbort>>
    /\ result'.status = "ok"

\* the step runs finalize_operation: at the exit of the loop, or from a
\* --continue that finds nothing left
Finalizes ==
    /\ nothing_left(checkpoint)
    /\ \/ pc = "process"
       \/ Invokes("continue") /\ cmd'.name = checkpoint.kind
    /\ calls' # <<>>
    /\ calls'[Len(calls')] = Checkout(checkpoint.original_branch)

\* C30: while a checkpoint exists its kind, branches and original_branch stay
\* as created; current_index changes only by +1, in a loop iteration whose
\* rebase succeeded or in a --continue whose rebase --continue succeeded; the
\* checkpoint is removed only by a successful --abort or by finalize.
C30_CheckpointLife ==
    [][checkpoint # NoOp =>
          IF checkpoint' # NoOp
          THEN /\ checkpoint'.kind = checkpoint.kind
               /\ checkpoint'.branches = checkpoint.branches
               /\ checkpoint'.original_branch = checkpoint.original_branch
               /\ \/ checkpoint'.current_index = checkpoint.current_index
                  \/ /\ checkpoint'.current_index = checkpoint.current_index + 1
                     /\ RebaseStepSucceeds \/ RebaseContinueSucceeds
          ELSE AbortSucceeds \/ Finalizes]_vars

\* a checkpoint paused at its second branch after two commands moved its
\* cursor, fields as planned
C30_Witness ==
    /\ pc = "idle"
    /\ cmd.mode = "continue"
    /\ result.status = "RebaseConflict"
    /\ checkpoint # NoOp
    /\ checkpoint.current_index >= 1
    /\ has_next(checkpoint)
    /\ Len(opRebases) = checkpoint.current_index + 1
    /\ \A j \in 1..Len(opRebases) : opRebases[j].branch = checkpoint.branches[j]

(* ---- C31 ---- *)

\* C31: when every rebase ends in success or in a conflict, no fatal error
\* occurs and every conflict is followed by a --continue of the same kind
\* whose rebase --continue succeeds, a started operation reaches Done: the
\* checkpoint is cleared and original_branch is checked out.  Each such
\* --continue moves current_index, which never exceeds the length of the
\* plan, by one, so at most len(branches) of them are needed.
C31_EventuallyDone ==
    /\ (checkpoint # NoOp) ~> (Done /\ checkpoint = NoOp)
    /\ [][(checkpoint # NoOp /\ checkpoint' = NoOp) =>
             /\ Done'
             /\ head' = checkpoint.original_branch
             /\ report' = checkpoint.branches]_vars
    /\ [](checkpoint # NoOp => checkpoint.current_index <= Len(checkpoint.branches))
    /\ [][(Invokes("continue") /\ calls' = <<RebaseContinue>>) =>
             /\ has_next(checkpoint)
             /\ checkpoint' # NoOp
             /\ checkpoint'.current_index = checkpoint.current_index + 1]_vars

\* an operation on three branches reached Done through a --continue
C31_Witness ==
    /\ Done
    /\ cmd.mode = "continue"
    /\ Len(report) >= 3
    /\ Len(opRebases) = Len(report)
    /\ head \in Range(report)

(* ---- C32 ---- *)

\* what is left of the plan of the checkpoint
Remaining(state) == Len(state.branches) - state.current_index

\* C32: on an acyclic graph the loops of find_stack_top and find_stack_bottom
\* and the recursion of collect_branch_sequence return for every start
\* branch, within as many moves as there are names, with the results the
\* commands use; every iteration of the loop of process_pending_operation
\* either ends the invocation (success of all steps, conflict or fatal error)
\* or leaves one branch less to process, so the loop ends.
C32_WalksTerminate ==
    /\ [](Acyclic(branches) =>
            \A b \in Names :
               /\ top_walk(branches, b, Fuel).returned
               /\ top_walk(branches, b, Fuel).branch = find_stack_top(branches, b)
               /\ bottom_walk(branches, b, Fuel).returned
               /\ bottom_walk(branches, b, Fuel).branch = find_stack_bottom(branches, b)
               /\ dfs_returns(branches, b, Fuel)
               /\ Len(collect_branch_sequence(branches, b)) <= Cardinality(Names))
    /\ [](pc = "process" => Remaining(checkpoint) >= 0)
    /\ [][pc = "process" =>
             \/ pc' = "idle"
             \/ /\ pc' = "process"
                /\ Remaining(checkpoint') = Remaining(checkpoint) - 1
                /\ Remaining(checkpoint') >= 0]_vars

\* on a chain of three tracked branches a restack from the top walked to the
\* bottom, planned the three and left the loop after the third
C32_Witness ==
    /\ Done
    /\ cmd.name = "restack"
    /\ Len(report) = 3
    /\ Len(opRebases) = 3
    /\ find_stack_bottom(branches, head) = report[1]
    /\ find_stack_top(branches, report[1]) = head
    /\ head = report[3]

(* ---- C33 ---- *)

\* C33: between two invocations, a checkpoint with current_index <
\* len(branches) has the rebase of branches[current_index] stopped in
\* progress, so that rebase --continue and rebase --abort apply and the
\* checkpoint can be cleared by some command.
C33_ConflictOutstanding ==
    (pc = "idle" /\ checkpoint # NoOp /\ has_next(checkpoint)) =>
        /\ rebaseOf = checkpoint.branches[checkpoint.current_index + 1]
        /\ ContinueOutcomes # {FALSE}
        /\ AbortOutcomes # {FALSE}

(* ---- C34 ---- *)

\* the branches of the plan not yet processed
Pending(state) ==
    {state.branches[j] : j \in (state.current_index + 1)..Len(state.branches)}

\* C34: while a checkpoint exists every branch of its sequence at an index
\* >= current_index is tracked, exists and keeps its recorded parent: branch
\* create and branch delete do not change the graph under an operation in
\* flight.
C34_PlanStaysValid ==
    /\ [](checkpoint # NoOp =>
            \A b \in Pending(checkpoint) :
                contains_key(branches, b) /\ b \in gitBranches)
    /\ [][(checkpoint # NoOp /\ checkpoint' # NoOp) =>
             \A b \in Pending(checkpoint') :
                get_parent(branches', b) = get_parent(branches, b)]_vars

(* ---- C35 ---- *)

\* C35: a successful `pk branch delete X` of an existing branch X without a
\* graph entry leaves every tracked branch whose recorded parent was X with
\* no recorded parent, so that it is shown as a standalone root; no entry is
\* removed and every other entry is as it was.
C35_DeleteExternalParent ==
    [][\A X \in Names :
          (/\ cmd'.name = "branch delete"
           /\ result'.status = "ok"
           /\ X \in gitBranches \ gitBranches'
           /\ ~contains_key(branches, X)) =>
             /\ DOMAIN branches' = DOMAIN branches
             /\ \A m \in DOMAIN branches :
                   branches'[m] = IF branches[m] = X THEN NoBranch ELSE branches[m]
             /\ get_children(branches, X) \subseteq
                   StandaloneNames(build_stack_forest(branches'))]_vars

\* main, the external parent of a tracked branch, was deleted: that branch
\* is left without a recorded parent
C35_Witness ==
    /\ cmd.name = "branch delete"
    /\ result.status = "ok"
    /\ MainBranch \notin gitBranches
    /\ ~contains_key(branches, MainBranch)
    /\ report # <<>>
    /\ \A c \in Range(report) : contains_key(branches, c) /\ branches[c] = NoBranch

(* ---- C36 ---- *)

\* HEAD is on a branch that has no graph entry
OnUntracked ==
    /\ pc = "idle"
    /\ ~no_current_branch
    /\ ~contains_key(branches, head)

\* C36: up and down do not ask for the current branch to be tracked, top,
\* bottom, sync and restack do: `pk up 1` from an untracked branch that is
\* the recorded parent of exactly one branch checks that branch out, while
\* top and bottom, and the start of a sync or restack, fail there with
\* "current branch is not tracked" and leave HEAD where it was.
C36_UpFromUntracked ==
    /\ [][(OnUntracked /\ cmd'.name \in {"up", "down"}) =>
             /\ result'.status # "UntrackedCurrentBranch"
             /\ (/\ cmd'.name = "up"
                 /\ cmd'.count = 1
                 /\ Cardinality(get_children(branches, head)) = 1) =>
                   /\ result'.status = "ok"
                   /\ head' \in get_children(branches, head)
                   /\ calls' = <<Checkout(head')>>]_vars
    /\ [][(OnUntracked /\ cmd'.name \in {"top", "bottom"}) =>
             /\ result'.status = "UntrackedCurrentBranch"
             /\ calls' = <<>>
             /\ head' = head]_vars
    /\ [][(OnUntracked /\ Invokes("start") /\ checkpoint = NoOp) =>
             /\ result'.status = "UntrackedCurrentBranch"
             /\ checkpoint' = NoOp
             /\ calls' = <<>>
             /\ head' = head]_vars

\* `pk up 1` went from an untracked branch to the one branch recorded on it
C36_Witness ==
    /\ cmd.name = "up"
    /\ cmd.count = 1
    /\ result.status = "ok"
    /\ ~contains_key(branches, result.from)
    /\ contains_key(branches, head)
    /\ branches[head] = result.from
    /\ get_children(branches, result.from) = {head}

(* ---- C37 ---- *)

\* C37: up, down, top and bottom never write the graph or the checkpoint,
\* whether they succeed or fail, and when they fail the checked-out branch
\* is the one that was checked out before.
C37_NavigationFrame ==
    [][(pc = "idle" /\ cmd'.name \in {"up", "down", "top", "bottom"}) =>
          /\ branches' = branches
          /\ checkpoint' = checkpoint
          /\ result'.status # "ok" => head' = head]_vars

\* the same without the clause on HEAD, and with the acceptance while a
\* checkpoint exists: no navigation command is refused because of it
C37_NavigationWritesNothing ==
    [][(pc = "idle" /\ cmd'.name \in {"up", "down", "top", "bottom"}) =>
          /\ branches' = branches
          /\ checkpoint' = checkpoint
          /\ result'.status \notin {"OperationAlreadyInProgress",
                                    "NoOperationInProgress",
                                    "OperationKindMismatch"}]_vars

(* ---- C38 ---- *)

\* C38 as claimed: when the checkout of original_branch fails in finalize the
\* command fails, the checkpoint is already gone and the checked-out branch
\* is the last branch of the sequence.
C38_Original ==
    [][(FinalizeStep /\ result'.status # "ok") =>
          /\ result'.status = "ExternalToolFailure"
          /\ checkpoint' = NoOp
          /\ pc' = "idle"
          /\ head' = checkpoint.branches[Len(checkpoint.branches)]]_vars

\* C38 (amended): when the checkout of original_branch fails in finalize the
\* command fails, the checkpoint is already gone and HEAD is where it was
\* before the checkout was tried; that is the last branch of the sequence
\* when finalize follows the loop in an invocation that rebased it or
\* continued its rebase.
C38_FailedFinalizeCheckout ==
    [][(FinalizeStep /\ result'.status # "ok") =>
          /\ result'.status = "ExternalToolFailure"
          /\ calls'[Len(calls')] = Checkout(checkpoint.original_branch)
          /\ checkpoint' = NoOp
          /\ pc' = "idle"
          /\ head' = head
          /\ report' = <<>>
          /\ pc = "process" =>
                head' = checkpoint.branches[Len(checkpoint.branches)]]_vars

\* the checkout that ends an operation on two branches failed: no checkpoint
\* is left and the second branch is checked out, not the one the operation
\* was started from
C38_Witness ==
    /\ pc = "idle"
    /\ cmd.name \in Kinds
    /\ result.status = "ExternalToolFailure"
    /\ checkpoint = NoOp
    /\ Len(opRebases) >= 2
    /\ calls[Len(calls)].op = "checkout"
    /\ calls[Len(calls)].branch # head
    /\ head = opRebases[Len(opRebases)].branch

(* ---- C39 ---- *)

\* a --continue of the kind of a checkpoint whose current_index equals
\* len(branches)
ContinueAtEnd ==
    /\ Invokes("continue")
    /\ checkpoint # NoOp
    /\ cmd'.name = checkpoint.kind
    /\ checkpoint.current_index = Len(checkpoint.branches)

\* C39 as claimed: such a --continue requests neither rebase --continue nor
\* a rebase, clears the checkpoint, checks out original_branch and reports
\* the sequence.
C39_Original ==
    [][ContinueAtEnd =>
          /\ \A j \in 1..Len(calls') : calls'[j].op = "checkout"
          /\ checkpoint' = NoOp
          /\ head' = checkpoint.original_branch
          /\ report' = checkpoint.branches]_vars

\* C39 (amended): such a --continue requests neither rebase --continue nor a
\* rebase: it clears the checkpoint and requests the checkout of
\* original_branch, and nothing else; when the checkout succeeds
\* original_branch is checked out and the sequence is reported, when it
\* fails the command fails, HEAD stays and nothing is reported.
C39_ContinueAtEndFinalizes ==
    [][ContinueAtEnd =>
          /\ calls' = <<Checkout(checkpoint.original_branch)>>
          /\ opRebases' = opRebases
          /\ rebaseOf' = rebaseOf
          /\ checkpoint' = NoOp
          /\ pc' = "idle"
          /\ IF result'.status = "ok"
             THEN head' = checkpoint.original_branch /\ report' = checkpoint.branches
             ELSE /\ result'.status = "ExternalToolFailure"
                  /\ head' = head
                  /\ report' = <<>>]_vars

\* a --continue ended an operation with the checkout of original_branch as
\* its only git request
C39_Witness ==
    /\ pc = "idle"
    /\ cmd.name \in Kinds
    /\ cmd.mode = "continue"
    /\ result.status = "ok"
    /\ checkpoint = NoOp
    /\ calls = <<Checkout(head)>>
    /\ report # <<>>
    /\ Len(opRebases) = Len(report)

====
